---- MODULE Spec2Model ----
(***************************************************************************)
(* Model of the remote command-execution engine of the sandbox SDK:        *)
(* BoxHandle.Run (polling mode) and BoxHandle.runWithStreaming (streaming  *)
(* mode) of box_handle.go, with the events of ParseSSE as their input;     *)
(* BoxHandle.WaitUntilReady; and the error classifier parseError behind    *)
(* Client.doRequest.                                                       *)
(*                                                                         *)
(* Strings that are split or concatenated (stdout, stderr, callback lines) *)
(* are sequences of one-character strings; identifiers and statuses are    *)
(* TLA+ strings.  An optional JSON number is a set with at most one        *)
(* element.  Time is in milliseconds.                                      *)
(***************************************************************************)
EXTENDS Integers, Sequences, FiniteSets, TLC

\* ------------------------------------------------------------------ bounds
\* most events before the terminal one that a stream is followed for
MaxEvents == 3
\* most status fetches of one polling-mode Run
MaxFetch == 3
\* how far past the deadline the clock is followed
MaxLate == 1

\* ------------------------------------------------------- program constants
DefaultTimeout == 300000
DefaultPollInterval == 1000
\* WaitUntilReady: timeout in seconds, poll interval in ms
DefaultBoxTimeout == 60
BoxPollInterval == 1000

CommandStatusQueued == "queued"
CommandStatusRunning == "running"
CommandStatusDone == "done"
CommandStatusFailed == "failed"
CommandStatusError == "error"

\* ------------------------------------------------------------ environment
NL == "\n"
Absent == "<absent>"
BoxID == "box1"
CommandText == "cmd"
CmdID == "c1"

\* the options a caller passes: Timeout and PollInterval in ms (0 = unset),
\* and whether each callback is supplied
CallerOptions ==
    [Timeout : {0, 2}, PollInterval : {0, 1}, OnStdout : {FALSE}, OnStderr : {FALSE}]
    \cup [Timeout : {0, 2}, PollInterval : {0}, OnStdout : BOOLEAN, OnStderr : BOOLEAN]

\* output fragments the server sends
StdoutFragments == { <<"A", NL, "B">>, <<"C", NL>> }
StderrFragments == { <<"A", NL, "B">> }

\* a decoded SSE event: its name and what json.Unmarshal finds in its data
Ev(name, ok, id, out, err, st, ec, msg) ==
    [Event |-> name, ok |-> ok, command_id |-> id, stdout |-> out, stderr |-> err,
     status |-> st, exit_code |-> ec, error |-> msg]

StartEvents ==
    { Ev("start", TRUE, CmdID, <<>>, <<>>, Absent, {}, Absent) }
OutputEvents ==
    { Ev("output", TRUE, Absent, f, <<>>, Absent, {}, Absent) : f \in StdoutFragments }
    \cup { Ev("output", TRUE, Absent, <<>>, f, Absent, {}, Absent) : f \in StderrFragments }
    \cup { Ev("output", TRUE, Absent, <<"C", NL>>, <<NL, "C">>, Absent, {}, Absent) }
StatusEvents ==
    { Ev("status", TRUE, Absent, <<>>, <<>>, CommandStatusRunning, {}, Absent),
      Ev("status", TRUE, Absent, <<>>, <<>>, CommandStatusDone, {42}, Absent) }
EndEvents ==
    { Ev("end", TRUE, Absent, <<>>, <<>>, s, {}, Absent) :
        s \in {CommandStatusDone, CommandStatusFailed, CommandStatusError, "timeout", Absent} }
    \cup { Ev("end", FALSE, Absent, <<>>, <<>>, Absent, {}, Absent) }
ErrorEvents ==
    { Ev("error", TRUE, Absent, <<>>, <<>>, Absent, {}, "boom"),
      Ev("error", TRUE, Absent, <<>>, <<>>, Absent, {}, Absent),
      Ev("error", FALSE, Absent, <<>>, <<>>, Absent, {}, Absent) }
TimeoutEvents == { Ev("timeout", TRUE, Absent, <<>>, <<>>, Absent, {}, Absent) }
\* an event name the loop does not know, and an event whose data is not JSON
OtherEvents ==
    { Ev("ping", TRUE, Absent, <<>>, <<>>, Absent, {}, Absent),
      Ev("output", FALSE, Absent, <<>>, <<>>, Absent, {}, Absent),
      Ev("start", FALSE, Absent, <<>>, <<>>, Absent, {}, Absent),
      Ev("status", FALSE, Absent, <<>>, <<>>, Absent, {}, Absent) }

Events ==
    StartEvents \cup OutputEvents \cup StatusEvents \cup EndEvents
    \cup ErrorEvents \cup TimeoutEvents \cup OtherEvents

\* what a status fetch can return: the command with the requested id
FetchStatuses ==
    {CommandStatusQueued, CommandStatusRunning, CommandStatusDone,
     CommandStatusFailed, CommandStatusError}
FetchResponses ==
    [ID : {CmdID}, BoxID : {BoxID}, Cmd : {CommandText}, Status : FetchStatuses,
     Stdout : {<<>>, <<"A", NL>>}, Stderr : {<<>>, <<"B">>}, ExitCode : {{}, {42}}]

\* what a status fetch of the earlier variant can return: the output of the
\* command so far, which only grows from one fetch to the next
CommandStdout == <<"A", NL, "B", NL>>
CommandStderr == <<"C">>
LegacyResponses ==
    [ID : {CmdID}, BoxID : {BoxID}, Cmd : {CommandText},
     Status : {CommandStatusRunning, CommandStatusDone},
     Stdout : {SubSeq(CommandStdout, 1, n) : n \in 0..Len(CommandStdout)},
     Stderr : {SubSeq(CommandStderr, 1, n) : n \in 0..Len(CommandStderr)},
     ExitCode : {{}}]

\* a response outside 200..299: its status and what reading and decoding its
\* body gives.  form is "json" when the body decodes into errorResponse (a
\* missing field decodes as the empty string), "text" when it is read but is
\* not JSON, "unreadable" when reading it fails
StatusCodes == {400, 401, 402, 403, 404, 429, 500}
ErrorTexts == {"", "unauthorized"}
MessageTexts == {"", "bad key"}
ErrorCodes == {"", "validation_error", "box_not_found", "api_error"}
Body(form, raw, error, message, code) ==
    [form |-> form, raw |-> raw, Error |-> error, Message |-> message, Code |-> code]
JSONBodies ==
    { Body("json", "", e, m, c) : e \in ErrorTexts, m \in MessageTexts, c \in ErrorCodes }
OtherBodies ==
    { Body("text", "<html>", "", "", ""), Body("unreadable", "", "", "", "") }
ErrorResponses ==
    [StatusCode : StatusCodes, body : JSONBodies \cup OtherBodies]
NoResponse == [StatusCode |-> 0]

\* the non-2xx responses the requests of Run are answered with
RunErrorResponses ==
    [StatusCode : {401, 500},
     body : { Body("json", "", "unauthorized", "bad key", ""), Body("text", "<html>", "", "", "") }]

\* the box of a fresh handle, and what a refresh can find
BoxStatusQueued == "queued"
BoxStatusStarting == "starting"
BoxStatusRunning == "running"
BoxStatusStopped == "stopped"
BoxStatusFailed == "failed"
BoxStatusTerminated == "terminated"
\* a status the client has no constant for
UnknownBoxStatus == "paused"
NewBox == [ID |-> BoxID, Status |-> BoxStatusQueued, Details |-> "", Hostname |-> ""]
RefreshedBoxes ==
    [ID : {BoxID}, Status : {BoxStatusQueued, BoxStatusStarting, BoxStatusRunning},
     Details : {""}, Hostname : {"", "h1.example"}]
    \cup [ID : {BoxID}, Status : {BoxStatusFailed, BoxStatusTerminated},
          Details : {"", "no capacity"}, Hostname : {""}]
    \cup [ID : {BoxID}, Status : {BoxStatusStopped, UnknownBoxStatus},
          Details : {""}, Hostname : {""}]

\* the statuses of a snapshot, and the arguments WaitSnapshotReady is
\* called with: the snapshot's id, the timeout and the poll interval in ms
SnapshotStatusCreating == "creating"
SnapshotStatusReady == "ready"
SnapshotStatusRestoring == "restoring"
SnapshotStatusDeleted == "deleted"
SnapshotStatusError == "error"
SnapshotStatuses ==
    {SnapshotStatusCreating, SnapshotStatusReady, SnapshotStatusRestoring,
     SnapshotStatusDeleted, SnapshotStatusError}
SnapshotArgs == [snapshotID : {"snap-1"}, timeout : {20, 50}, pollInterval : {10}]

\* the ports GetPublicURL is asked for
Ports == {0, 80, 8080}

\* values of the environment variable TAVOR_BOX_TIMEOUT (<<>> = not set)
EnvTimeouts == { <<>>, <<"2">>, <<"x">>, <<"-", "1">> }

\* ---------------------------------------------------------------- helpers
RECURSIVE Split(_)
\* strings.Split(s, "\n")
Split(s) ==
    IF \A i \in 1..Len(s) : s[i] # NL
    THEN <<s>>
    ELSE LET i == CHOOSE j \in 1..Len(s) : s[j] = NL /\ \A k \in 1..(j - 1) : s[k] # NL
         IN  <<SubSeq(s, 1, i - 1)>> \o Split(SubSeq(s, i + 1, Len(s)))

RECURSIVE DispatchCompleteFrom(_, _)
DispatchCompleteFrom(lines, i) ==
    IF i > Len(lines) THEN <<>>
    ELSE (IF i < Len(lines) THEN <<lines[i]>> ELSE <<>>)
         \o DispatchCompleteFrom(lines, i + 1)

RECURSIVE DispatchFrom(_, _)
\* the loop "for i, line := range lines" of the output case: the lines
\* handed to the callback, from index i on
DispatchFrom(lines, i) ==
    IF i > Len(lines) THEN <<>>
    ELSE (IF i < Len(lines) \/ lines[i] # <<>> THEN <<lines[i]>> ELSE <<>>)
         \o DispatchFrom(lines, i + 1)

\* lines 219-224 and 231-236: the callback's arguments for fragment s
Dispatch(s) == DispatchFrom(Split(s), 1)

NewCommandTimeoutErrorSeconds(id, timeout) ==
    [kind |-> "CommandTimeoutError", CommandID |-> id, Timeout |-> timeout \div 1000]

NewCommandTimeoutError(id, timeout) ==
    [kind |-> "CommandTimeoutError", CommandID |-> id, Timeout |-> timeout]

CommandResult(id, box, cmd, st, out, err, ec) ==
    [kind |-> "result", ID |-> id, BoxID |-> box, Cmd |-> cmd, Status |-> st,
     Stdout |-> out, Stderr |-> err, ExitCode |-> ec]

NoReturn == [kind |-> "none"]
NoSnapshot == [Status |-> ""]
\* a nil error
Nil == [kind |-> "nil"]

IsPrefix(old, new) == Len(old) <= Len(new) /\ SubSeq(new, 1, Len(old)) = old

Failure(msg) == [kind |-> "error", err |-> msg]

\* ---- the error taxonomy (errors.go) and the classifier
Err(kind, message, statusCode, code) ==
    [kind |-> kind, Message |-> message, StatusCode |-> statusCode, Code |-> code]

NewAuthenticationError(message) ==
    Err("AuthenticationError", <<message>>, 401, "authentication_error")

NewBoxTimeoutError(boxID, t) ==
    [kind |-> "BoxTimeoutError",
     Message |-> <<"Box ", boxID, " failed to become ready within ", t, " seconds">>,
     StatusCode |-> 408, Code |-> "box_timeout", BoxID |-> boxID, Timeout |-> t]

NewRateLimitError(retryAfter) ==
    [kind |-> "RateLimitError",
     Message |-> <<"Rate limit exceeded. Retry after ", retryAfter, " seconds">>,
     StatusCode |-> 429, Code |-> "rate_limit", RetryAfter |-> retryAfter]

NewValidationError(field, message) ==
    [kind |-> "ValidationError",
     Message |-> <<"Validation error on field '", field, "': ", message>>,
     StatusCode |-> 400, Code |-> "validation_error", Field |-> field]

NewInsufficientCreditsError(required, available) ==
    [kind |-> "InsufficientCreditsError",
     Message |-> <<"Insufficient credits. Required: ", required, ", Available: ", available>>,
     StatusCode |-> 402, Code |-> "insufficient_credits",
     Required |-> required, Available |-> available]

NewAPIError(statusCode, message) ==
    Err("APIError", message, statusCode, "api_error")

\* the text precedence of parseError: message, or error when message is empty
BodyText(errResp) ==
    IF errResp.Message = "" THEN errResp.Error ELSE errResp.Message

parseErrorByStatusOnly(statusCode, errResp) ==
    LET message == BodyText(errResp)
    IN  CASE statusCode = 401 -> NewAuthenticationError(message)
          [] statusCode = 404 -> Err("BoxNotFoundError", <<message>>, statusCode, errResp.Code)
          [] statusCode = 429 -> NewRateLimitError(0)
          [] statusCode = 400 -> NewValidationError("", message)
          [] OTHER -> NewAPIError(statusCode, <<message>>)

\* parseError
parseError(statusCode, errResp) ==
    LET message == BodyText(errResp)
    IN  CASE statusCode = 401 -> NewAuthenticationError(message)
          [] statusCode = 402 -> NewAPIError(statusCode, <<message>>)
          [] statusCode = 404 ->
                IF errResp.Code = "box_not_found"
                THEN Err("BoxNotFoundError", <<message>>, statusCode, errResp.Code)
                ELSE NewAPIError(statusCode, <<message>>)
          [] statusCode = 429 -> NewRateLimitError(0)
          [] statusCode = 400 ->
                IF errResp.Code = "validation_error"
                THEN NewValidationError("", message)
                ELSE NewAPIError(statusCode, <<message>>)
          [] OTHER -> NewAPIError(statusCode, <<message>>)

\* Client.handleError: the error of doRequest for the non-2xx response r
handleError(r) ==
    CASE r.body.form = "unreadable" ->
            NewAPIError(r.StatusCode, <<"Failed to read error response">>)
      [] r.body.form = "text" ->
            NewAPIError(r.StatusCode, <<"API generic error:", r.body.raw>>)
      [] OTHER -> parseError(r.StatusCode, r.body)

\* runWithStreaming lines 184-190: the error for a response with status >= 400
streamError(r) ==
    IF r.body.form # "json"
    THEN Failure(<<"request failed with status ", r.StatusCode>>)
    ELSE Failure(<<r.body.Error>>)

\* ---- strconv.Atoi on a sequence of characters
Digits == <<"0", "1", "2", "3", "4", "5", "6", "7", "8", "9">>
IsDigit(c) == \E i \in 1..Len(Digits) : Digits[i] = c
DigitValue(c) == (CHOOSE i \in 1..Len(Digits) : Digits[i] = c) - 1

RECURSIVE ParseDigits(_, _)
ParseDigits(s, acc) ==
    IF s = <<>> THEN acc ELSE ParseDigits(Tail(s), 10 * acc + DigitValue(Head(s)))

Atoi(s) ==
    LET signed == s # <<>> /\ Head(s) \in {"+", "-"}
        digits == IF signed THEN Tail(s) ELSE s
    IN  IF digits = <<>> \/ \E i \in 1..Len(digits) : ~IsDigit(digits[i])
        THEN [ok |-> FALSE, val |-> 0]
        ELSE [ok |-> TRUE,
              val |-> IF signed /\ Head(s) = "-" THEN 0 - ParseDigits(digits, 0)
                      ELSE ParseDigits(digits, 0)]

IsTerminalStatusNoError(s) ==
    s \in {CommandStatusDone, CommandStatusFailed}

\* line 131
IsTerminalStatus(s) ==
    s \in {CommandStatusDone, CommandStatusFailed, CommandStatusError}

TerminalEventNames == {"end", "error", "timeout"}

\* the instants the clock is observed at once the deadline d is set
TimePoints(d) == d..(d + MaxLate)

\* the same for WaitUntilReady, whose timeout is reported in whole seconds:
\* also instants whole seconds past the deadline
WaitTimePoints(d) == TimePoints(d) \cup { d + 1000 * k : k \in 1..MaxLate }

\* ------------------------------------------------------------------ state
VARIABLES
    pc,            \* where Run is: init, poll, wait, stream, done
    given,         \* the CommandOptions as the caller passed them
    opts,          \* the CommandOptions, defaults applied once Run has started
    now,           \* the clock, ms
    deadline,      \* time.Now().Add(opts.Timeout) taken after the submit
    ctxDone,       \* the caller's context is cancelled
    nSubmit,       \* POST requests with stream = false
    nStreamSubmit, \* POST requests with stream = true
    nFetch,        \* GET requests for the command's state
    cmd,           \* the last fetched command (sequence of at most one)
    commandID, status, stdout, stderr, exitCode,   \* locals of Run / runWithStreaming
    outLines,      \* arguments of the OnStdout calls, in order
    errLines,      \* arguments of the OnStderr calls, in order
    events,        \* the events the streaming loop has processed, in order
    ret,           \* what Run returned
    legacy,        \* this Run is the earlier variant, which polls with callbacks
    lastStdout,    \* BoxHandle.lastStdout
    lastStderr,    \* BoxHandle.lastStderr
    resp,          \* the non-2xx response a request got, NoResponse if none did
    box,           \* BoxHandle.box as the last Refresh left it
    timeout,       \* the local timeout of WaitUntilReady, seconds
    remote,        \* the box as the service has it
    args,          \* the arguments of the call in progress
    snapshot,      \* the snapshot as the last fetch of WaitSnapshotReady showed it
    scanner,       \* ParseSSE: the lines of the reader not yet scanned
    event, data,   \* ParseSSE: the locals event and data
    emitted,       \* ParseSSE: the SSEEvents sent on the channel, in order
    wsPc,          \* where WithSandbox is: idle, wait, fn, stop, returned
    nStop,         \* DELETE requests issued for the box
    nFn,           \* calls of fn
    wsRet,         \* what WithSandbox returned
    calls,         \* concurrent Run calls: the locals of each
    commands       \* the commands the service has queued, by id

vars ==
    <<pc, given, opts, now, deadline, ctxDone, nSubmit, nStreamSubmit, nFetch, cmd,
      commandID, status, stdout, stderr, exitCode, outLines, errLines, events, ret,
      legacy, lastStdout, lastStderr, resp, box, timeout, remote, args, snapshot,
      scanner, event, data, emitted, wsPc, nStop, nFn, wsRet, calls, commands>>

\* the variables of the operations other than Run and WaitUntilReady
sseVars == <<scanner, event, data, emitted>>
sandboxVars == <<wsPc, nStop, nFn, wsRet>>
concVars == <<calls, commands>>
restVars == <<remote, args, snapshot, sseVars, sandboxVars, concVars>>

Init ==
    /\ pc = "init"
    /\ given \in CallerOptions
    /\ opts = given
    /\ now = 0
    /\ deadline = 0
    /\ ctxDone = FALSE
    /\ nSubmit = 0
    /\ nStreamSubmit = 0
    /\ nFetch = 0
    /\ cmd = <<>>
    /\ commandID = ""
    /\ status = ""
    /\ stdout = <<>>
    /\ stderr = <<>>
    /\ exitCode = 0
    /\ outLines = <<>>
    /\ errLines = <<>>
    /\ events = <<>>
    /\ ret = NoReturn
    /\ legacy = FALSE
    /\ lastStdout = <<>>
    /\ lastStderr = <<>>
    /\ resp = NoResponse
    /\ box = NewBox
    /\ timeout = 0
    /\ remote = NewBox
    /\ args = <<>>
    /\ snapshot = NoSnapshot
    /\ scanner = <<>>
    /\ event = <<>>
    /\ data = <<>>
    /\ emitted = <<>>
    /\ wsPc = "idle"
    /\ nStop = 0
    /\ nFn = 0
    /\ wsRet = NoReturn
    /\ calls = <<>>
    /\ commands = <<>>

\* lines 89-99: the defaults of Timeout and PollInterval
WithDefaults(o) ==
    [o EXCEPT !.Timeout = IF o.Timeout = 0 THEN DefaultTimeout ELSE o.Timeout,
              !.PollInterval = IF o.PollInterval = 0 THEN DefaultPollInterval
                               ELSE o.PollInterval]

useStreamingBoth(o) == o.OnStdout /\ o.OnStderr

\* line 101
useStreaming(o) == o.OnStdout \/ o.OnStderr

Return(r) ==
    /\ pc' = "done"
    /\ ret' = r

\* ------------------------------------------------------------ polling mode
\* Client.doRequest, lines "resp.StatusCode < 200 || resp.StatusCode >= 300":
\* the request is answered outside 2xx and the caller returns handleError's
\* error; unaffected are the variables a successful request would set
DoRequestRejected(unaffected) ==
    /\ ~ctxDone
    /\ \E r \in RunErrorResponses :
          /\ r.StatusCode < 200 \/ r.StatusCode >= 300
          /\ resp' = r
          /\ Return(handleError(r))
    /\ UNCHANGED unaffected

\* lines 88-118, callbacks absent: the submit request (stream = false) and
\* the deadline.  A request on a cancelled context fails.
Run ==
    /\ UNCHANGED <<legacy, lastStdout, lastStderr, box, timeout, restVars>>
    /\ pc = "init"
    /\ ~useStreaming(WithDefaults(opts))
    /\ opts' = WithDefaults(opts)
    /\ nSubmit' = nSubmit + 1
    /\ \/ \E ok \in BOOLEAN :
             /\ ctxDone => ~ok
             /\ IF ok
                THEN /\ commandID' = CmdID
                     /\ deadline' = now + opts'.Timeout
                     /\ pc' = "poll"
                     /\ ret' = ret
                ELSE /\ Return(Failure(<<"request failed">>))
                     /\ UNCHANGED <<commandID, deadline>>
             /\ resp' = resp
       \/ DoRequestRejected(<<commandID, deadline>>)
    /\ UNCHANGED <<given, now, ctxDone, nStreamSubmit, nFetch, cmd, status, stdout, stderr,
                   exitCode, outLines, errLines, events>>

PollResultZeroExit(c) ==
    CommandResult(c.ID, c.BoxID, c.Cmd, c.Status, c.Stdout, c.Stderr, 0)

\* lines 132-145: the result of a terminal fetch
PollResult(c) ==
    CommandResult(c.ID, c.BoxID, c.Cmd, c.Status, c.Stdout, c.Stderr,
                  IF c.ExitCode = {} THEN 0 ELSE CHOOSE x \in c.ExitCode : TRUE)

AfterOrAt(t, d) == t >= d

AfterNever(t, d) == FALSE

\* lines 148 and 202: time.Now().After(deadline)
After(t, d) == t > d

PollDeadlineFirst ==
    /\ UNCHANGED <<legacy, lastStdout, lastStderr, box, timeout, restVars>>
    /\ pc = "poll"
    /\ ~legacy
    /\ nFetch' = nFetch + 1
    /\ \/ /\ Return(Failure(<<"request failed">>))
          /\ UNCHANGED <<cmd, resp>>
       \/ DoRequestRejected(<<cmd>>)
       \/ /\ ~ctxDone
          /\ resp' = resp
          /\ \E r \in FetchResponses :
                /\ r.ID = commandID
                /\ cmd' = <<r>>
                /\ IF After(now, deadline)
                   THEN Return(NewCommandTimeoutError(r.ID, opts.Timeout))
                   ELSE IF IsTerminalStatus(r.Status)
                   THEN Return(PollResult(r))
                   ELSE /\ pc' = "wait"
                        /\ ret' = ret
    /\ UNCHANGED <<given, opts, now, deadline, ctxDone, nSubmit, nStreamSubmit, commandID,
                   status, stdout, stderr, exitCode, outLines, errLines, events>>

\* lines 121-150: one status fetch and what the loop decides on it
Poll ==
    /\ UNCHANGED <<legacy, lastStdout, lastStderr, box, timeout, restVars>>
    /\ pc = "poll"
    /\ ~legacy
    /\ nFetch' = nFetch + 1
    /\ \/ /\ Return(Failure(<<"request failed">>))
          /\ UNCHANGED <<cmd, resp>>
       \/ DoRequestRejected(<<cmd>>)
       \/ /\ ~ctxDone
          /\ resp' = resp
          /\ \E r \in FetchResponses :
                /\ r.ID = commandID
                /\ cmd' = <<r>>
                /\ IF IsTerminalStatus(r.Status)
                   THEN Return(PollResult(r))
                   ELSE IF After(now, deadline)
                   THEN Return(NewCommandTimeoutError(r.ID, opts.Timeout))
                   ELSE /\ pc' = "wait"
                        /\ ret' = ret
    /\ UNCHANGED <<given, opts, now, deadline, ctxDone, nSubmit, nStreamSubmit, commandID,
                   status, stdout, stderr, exitCode, outLines, errLines, events>>

\* lines 152-157, case <-time.After(pollInterval): the timer fires no earlier
\* than the poll interval
WaitElapsed ==
    /\ UNCHANGED <<legacy, lastStdout, lastStderr, resp, box, timeout, restVars>>
    /\ pc = "wait"
    /\ \E t \in {now + opts.PollInterval} \cup TimePoints(deadline) :
          /\ t >= now + opts.PollInterval
          /\ nFetch < MaxFetch \/ After(t, deadline)
          /\ now' = t
    /\ pc' = "poll"
    /\ UNCHANGED <<given, opts, deadline, ctxDone, nSubmit, nStreamSubmit, nFetch, cmd,
                   commandID, status, stdout, stderr, exitCode, outLines, errLines,
                   events, ret>>

WaitCancelledLate ==
    /\ UNCHANGED <<legacy, lastStdout, lastStderr, resp, box, timeout, restVars>>
    /\ pc = "wait"
    /\ ctxDone
    /\ now' = now + opts.PollInterval
    /\ Return(Failure(<<"context canceled">>))
    /\ UNCHANGED <<given, opts, deadline, ctxDone, nSubmit, nStreamSubmit, nFetch, cmd,
                   commandID, status, stdout, stderr, exitCode, outLines, errLines,
                   events>>

\* lines 152-154, case <-ctx.Done()
WaitCancelled ==
    /\ UNCHANGED <<legacy, lastStdout, lastStderr, resp, box, timeout, restVars>>
    /\ pc = "wait"
    /\ ctxDone
    /\ Return(Failure(<<"context canceled">>))
    /\ UNCHANGED <<given, opts, now, deadline, ctxDone, nSubmit, nStreamSubmit, nFetch, cmd,
                   commandID, status, stdout, stderr, exitCode, outLines, errLines,
                   events>>

\* the caller cancels the context of a polling-mode Run
Cancel ==
    /\ UNCHANGED <<legacy, lastStdout, lastStderr, resp, box, timeout, restVars>>
    /\ pc \in {"init", "poll", "wait"}
    /\ ~ctxDone
    /\ ctxDone' = TRUE
    /\ UNCHANGED <<pc, given, opts, now, deadline, nSubmit, nStreamSubmit, nFetch, cmd,
                   commandID, status, stdout, stderr, exitCode, outLines, errLines,
                   events, ret>>

\* time passes while a request is in flight or the stream is silent
Tick ==
    /\ UNCHANGED <<legacy, lastStdout, lastStderr, resp, box, timeout, restVars>>
    /\ pc \in {"poll", "stream"}
    /\ \E t \in TimePoints(deadline) :
          /\ t > now
          /\ now' = t
    /\ UNCHANGED <<pc, given, opts, deadline, ctxDone, nSubmit, nStreamSubmit, nFetch, cmd,
                   commandID, status, stdout, stderr, exitCode, outLines, errLines,
                   events, ret>>

\* ---------------------------------------------------------- streaming mode
\* lines 88-105 and 161-199, a callback supplied: the submit request
\* (stream = true), the locals and the deadline
runWithStreaming ==
    /\ UNCHANGED <<legacy, lastStdout, lastStderr, box, timeout, restVars>>
    /\ pc = "init"
    /\ useStreaming(WithDefaults(opts))
    /\ opts' = WithDefaults(opts)
    /\ nStreamSubmit' = nStreamSubmit + 1
    /\ \/ \E ok \in BOOLEAN :
             /\ ctxDone => ~ok
             /\ IF ok
                THEN /\ commandID' = ""
                     /\ status' = CommandStatusQueued
                     /\ deadline' = now + opts'.Timeout
                     /\ pc' = "stream"
                     /\ ret' = ret
                ELSE /\ Return(Failure(<<"request failed">>))
                     /\ UNCHANGED <<commandID, status, deadline>>
             /\ resp' = resp
       \/ /\ ~ctxDone
          /\ \E r \in RunErrorResponses :
                /\ r.StatusCode >= 400
                /\ resp' = r
                /\ Return(streamError(r))
          /\ UNCHANGED <<commandID, status, deadline>>
    /\ UNCHANGED <<given, now, ctxDone, nSubmit, nFetch, cmd, stdout, stderr, exitCode,
                   outLines, errLines, events>>

\* the loop takes event e off the channel
Receive(e) ==
    /\ pc = "stream"
    /\ e.Event \in TerminalEventNames \/ Len(events) < MaxEvents

ProcessUnchecked(e) ==
    /\ Receive(e)
    /\ events' = Append(events, e)

\* the loop processes e: the deadline check of line 202 let it through
Process(e) ==
    /\ Receive(e)
    /\ ~After(now, deadline)
    /\ events' = Append(events, e)

\* lines 289-297 and 264-272
StreamResult(st) ==
    CommandResult(commandID, BoxID, CommandText, st, stdout, stderr, exitCode)

\* lines 202-204: an event arrives after the deadline
StreamDeadline ==
    /\ UNCHANGED <<legacy, lastStdout, lastStderr, resp, box, timeout, restVars>>
    /\ \E e \in Events : Receive(e)
    /\ After(now, deadline)
    /\ Return(NewCommandTimeoutError(commandID, opts.Timeout))
    /\ UNCHANGED <<given, opts, now, deadline, ctxDone, nSubmit, nStreamSubmit, nFetch, cmd,
                   commandID, status, stdout, stderr, exitCode, outLines, errLines,
                   events>>

StartEventUnchecked ==
    /\ UNCHANGED <<legacy, lastStdout, lastStderr, resp, box, timeout, restVars>>
    /\ \E e \in Events :
          /\ e.Event = "start"
          /\ Process(e)
          /\ commandID' = IF e.command_id = Absent THEN "" ELSE e.command_id
    /\ UNCHANGED <<pc, given, opts, now, deadline, ctxDone, nSubmit, nStreamSubmit, nFetch,
                   cmd, status, stdout, stderr, exitCode, outLines, errLines, ret>>

\* lines 207-211
StartEvent ==
    /\ UNCHANGED <<legacy, lastStdout, lastStderr, resp, box, timeout, restVars>>
    /\ \E e \in Events :
          /\ e.Event = "start"
          /\ Process(e)
          /\ commandID' = IF ~e.ok THEN commandID
                           ELSE IF e.command_id = Absent THEN "" ELSE e.command_id
    /\ UNCHANGED <<pc, given, opts, now, deadline, ctxDone, nSubmit, nStreamSubmit, nFetch,
                   cmd, status, stdout, stderr, exitCode, outLines, errLines, ret>>

\* lines 218-225 and 230-237: what one fragment adds to the calls of a callback
Lines(supplied, s) == IF supplied THEN Dispatch(s) ELSE <<>>

OutputEventReplace ==
    /\ UNCHANGED <<legacy, lastStdout, lastStderr, resp, box, timeout, restVars>>
    /\ \E e \in Events :
          /\ e.Event = "output"
          /\ Process(e)
          /\ IF e.ok /\ e.stdout # <<>>
             THEN /\ stdout' = e.stdout
                  /\ outLines' = outLines \o Lines(opts.OnStdout, e.stdout)
             ELSE UNCHANGED <<stdout, outLines>>
          /\ IF e.ok /\ e.stderr # <<>>
             THEN /\ stderr' = e.stderr
                  /\ errLines' = errLines \o Lines(opts.OnStderr, e.stderr)
             ELSE UNCHANGED <<stderr, errLines>>
    /\ UNCHANGED <<pc, given, opts, now, deadline, ctxDone, nSubmit, nStreamSubmit, nFetch,
                   cmd, commandID, status, exitCode, ret>>

OutputEventResend ==
    /\ UNCHANGED <<legacy, lastStdout, lastStderr, resp, box, timeout, restVars>>
    /\ \E e \in Events :
          /\ e.Event = "output"
          /\ Process(e)
          /\ IF e.ok /\ e.stdout # <<>>
             THEN /\ stdout' = stdout \o e.stdout
                  /\ outLines' = outLines \o Lines(opts.OnStdout, stdout')
             ELSE UNCHANGED <<stdout, outLines>>
          /\ IF e.ok /\ e.stderr # <<>>
             THEN /\ stderr' = stderr \o e.stderr
                  /\ errLines' = errLines \o Lines(opts.OnStderr, stderr')
             ELSE UNCHANGED <<stderr, errLines>>
    /\ UNCHANGED <<pc, given, opts, now, deadline, ctxDone, nSubmit, nStreamSubmit, nFetch,
                   cmd, commandID, status, exitCode, ret>>

\* lines 213-239
OutputEvent ==
    /\ UNCHANGED <<legacy, lastStdout, lastStderr, resp, box, timeout, restVars>>
    /\ \E e \in Events :
          /\ e.Event = "output"
          /\ Process(e)
          /\ IF e.ok /\ e.stdout # <<>>
             THEN /\ stdout' = stdout \o e.stdout
                  /\ outLines' = outLines \o Lines(opts.OnStdout, e.stdout)
             ELSE UNCHANGED <<stdout, outLines>>
          /\ IF e.ok /\ e.stderr # <<>>
             THEN /\ stderr' = stderr \o e.stderr
                  /\ errLines' = errLines \o Lines(opts.OnStderr, e.stderr)
             ELSE UNCHANGED <<stderr, errLines>>
    /\ UNCHANGED <<pc, given, opts, now, deadline, ctxDone, nSubmit, nStreamSubmit, nFetch,
                   cmd, commandID, status, exitCode, ret>>

\* lines 241-250
StatusEvent ==
    /\ UNCHANGED <<legacy, lastStdout, lastStderr, resp, box, timeout, restVars>>
    /\ \E e \in Events :
          /\ e.Event = "status"
          /\ Process(e)
          /\ status' = IF e.ok /\ e.status # Absent THEN e.status ELSE status
          /\ exitCode' = IF e.ok /\ e.exit_code # {}
                          THEN CHOOSE x \in e.exit_code : TRUE ELSE exitCode
    /\ UNCHANGED <<pc, given, opts, now, deadline, ctxDone, nSubmit, nStreamSubmit, nFetch,
                   cmd, commandID, stdout, stderr, outLines, errLines, ret>>

\* lines 255-261: the status the result of an end event carries
EndStatus(e) ==
    IF e.ok /\ e.status = "error" THEN CommandStatusError ELSE status

\* lines 252-272
EndEvent ==
    /\ UNCHANGED <<legacy, lastStdout, lastStderr, resp, box, timeout, restVars>>
    /\ \E e \in Events :
          /\ e.Event = "end"
          /\ Process(e)
          /\ status' = EndStatus(e)
          /\ IF e.ok /\ e.status = "timeout"
             THEN Return(NewCommandTimeoutError(commandID, opts.Timeout))
             ELSE Return(StreamResult(EndStatus(e)))
    /\ UNCHANGED <<given, opts, now, deadline, ctxDone, nSubmit, nStreamSubmit, nFetch, cmd,
                   commandID, stdout, stderr, exitCode, outLines, errLines>>

ErrorEventGeneric ==
    /\ UNCHANGED <<legacy, lastStdout, lastStderr, resp, box, timeout, restVars>>
    /\ \E e \in Events :
          /\ e.Event = "error"
          /\ Process(e)
          /\ Return(Failure(<<"command error">>))
    /\ UNCHANGED <<given, opts, now, deadline, ctxDone, nSubmit, nStreamSubmit, nFetch, cmd,
                   commandID, status, stdout, stderr, exitCode, outLines, errLines>>

\* lines 274-281
ErrorEvent ==
    /\ UNCHANGED <<legacy, lastStdout, lastStderr, resp, box, timeout, restVars>>
    /\ \E e \in Events :
          /\ e.Event = "error"
          /\ Process(e)
          /\ IF e.ok /\ e.error # Absent
             THEN Return(Failure(<<"command error: ", e.error>>))
             ELSE Return(Failure(<<"command error">>))
    /\ UNCHANGED <<given, opts, now, deadline, ctxDone, nSubmit, nStreamSubmit, nFetch, cmd,
                   commandID, status, stdout, stderr, exitCode, outLines, errLines>>

\* lines 283-284
TimeoutEvent ==
    /\ UNCHANGED <<legacy, lastStdout, lastStderr, resp, box, timeout, restVars>>
    /\ \E e \in Events :
          /\ e.Event = "timeout"
          /\ Process(e)
    /\ Return(NewCommandTimeoutError(commandID, opts.Timeout))
    /\ UNCHANGED <<given, opts, now, deadline, ctxDone, nSubmit, nStreamSubmit, nFetch, cmd,
                   commandID, status, stdout, stderr, exitCode, outLines, errLines>>

\* lines 206-285: an event name the switch has no case for
UnknownEvent ==
    /\ UNCHANGED <<legacy, lastStdout, lastStderr, resp, box, timeout, restVars>>
    /\ \E e \in Events :
          /\ e.Event \notin {"start", "output", "status", "end", "error", "timeout"}
          /\ Process(e)
    /\ UNCHANGED <<pc, given, opts, now, deadline, ctxDone, nSubmit, nStreamSubmit, nFetch,
                   cmd, commandID, status, stdout, stderr, exitCode, outLines,
                   errLines, ret>>

StreamClosedIsError ==
    /\ UNCHANGED <<legacy, lastStdout, lastStderr, resp, box, timeout, restVars>>
    /\ pc = "stream"
    /\ Return(Failure(<<"stream closed">>))
    /\ UNCHANGED <<given, opts, now, deadline, ctxDone, nSubmit, nStreamSubmit, nFetch, cmd,
                   commandID, status, stdout, stderr, exitCode, outLines, errLines,
                   events>>

\* lines 201 and 288-297: the channel is closed (the body ended or its read
\* failed) and the loop falls through
StreamClosed ==
    /\ UNCHANGED <<legacy, lastStdout, lastStderr, resp, box, timeout, restVars>>
    /\ pc = "stream"
    /\ Return(StreamResult(status))
    /\ UNCHANGED <<given, opts, now, deadline, ctxDone, nSubmit, nStreamSubmit, nFetch, cmd,
                   commandID, status, stdout, stderr, exitCode, outLines, errLines,
                   events>>

\* the caller cancels the context of a streaming Run: the read of the body
\* fails, ParseSSE's scanner stops and its channel is closed
StreamCancelled ==
    /\ UNCHANGED <<legacy, lastStdout, lastStderr, resp, box, timeout, restVars>>
    /\ pc = "stream"
    /\ ~ctxDone
    /\ ctxDone' = TRUE
    /\ Return(StreamResult(status))
    /\ UNCHANGED <<given, opts, now, deadline, nSubmit, nStreamSubmit, nFetch, cmd,
                   commandID, status, stdout, stderr, exitCode, outLines, errLines,
                   events>>

\* ------------------------------------- the earlier variant (part_007)
\* part_007 lines 86-110: Run always polls; the submit request and the deadline
RunLegacy ==
    /\ pc = "init"
    /\ legacy' = TRUE
    /\ opts' = WithDefaults(opts)
    /\ nSubmit' = nSubmit + 1
    /\ \E ok \in BOOLEAN :
          /\ ctxDone => ~ok
          /\ IF ok
             THEN /\ commandID' = CmdID
                  /\ deadline' = now + opts'.Timeout
                  /\ pc' = "poll"
                  /\ ret' = ret
             ELSE /\ Return(Failure(<<"request failed">>))
                  /\ UNCHANGED <<commandID, deadline>>
    /\ UNCHANGED <<given, now, ctxDone, nStreamSubmit, nFetch, cmd, status, stdout,
                   stderr, exitCode, outLines, errLines, events, lastStdout, lastStderr,
                   resp, box, timeout, restVars>>

RECURSIVE ScanLines(_)
\* part_007 lines 168-171: the tokens of a bufio.Scanner over s
ScanLines(s) ==
    IF s = <<>> THEN <<>>
    ELSE IF \A i \in 1..Len(s) : s[i] # NL THEN <<s>>
    ELSE LET i == CHOOSE j \in 1..Len(s) : s[j] = NL /\ \A k \in 1..(j - 1) : s[k] # NL
         IN  <<SubSeq(s, 1, i - 1)>> \o ScanLines(SubSeq(s, i + 1, Len(s)))

\* part_007 lines 163-165: the output streamOutput has not delivered yet
NewOutput(supplied, out, last) ==
    IF supplied /\ Len(out) > Len(last) THEN SubSeq(out, Len(last) + 1, Len(out)) ELSE <<>>

\* part_007 lines 163-165: the last-seen output streamOutput leaves
LastSeen(supplied, out, last) ==
    IF supplied /\ Len(out) > Len(last) THEN out ELSE last

\* part_007 lines 113-151: one status fetch, streamOutput, and what the loop
\* decides; on a terminal status streamOutput is called a second time
PollLegacy ==
    /\ pc = "poll"
    /\ legacy
    /\ nFetch' = nFetch + 1
    /\ \/ /\ Return(Failure(<<"request failed">>))
          /\ UNCHANGED <<cmd, lastStdout, lastStderr, outLines, errLines>>
       \/ /\ ~ctxDone
          /\ \E r \in LegacyResponses :
                /\ r.ID = commandID
                /\ cmd # <<>> => IsPrefix(cmd[1].Stdout, r.Stdout)
                                  /\ IsPrefix(cmd[1].Stderr, r.Stderr)
                /\ cmd' = <<r>>
                /\ LET out1 == LastSeen(opts.OnStdout, r.Stdout, lastStdout)
                       err1 == LastSeen(opts.OnStderr, r.Stderr, lastStderr)
                       first == ScanLines(NewOutput(opts.OnStdout, r.Stdout, lastStdout))
                       firstErr == ScanLines(NewOutput(opts.OnStderr, r.Stderr, lastStderr))
                   IN  IF IsTerminalStatus(r.Status)
                       THEN /\ lastStdout' = LastSeen(opts.OnStdout, r.Stdout, out1)
                            /\ lastStderr' = LastSeen(opts.OnStderr, r.Stderr, err1)
                            /\ outLines' = outLines \o first
                                    \o ScanLines(NewOutput(opts.OnStdout, r.Stdout, out1))
                            /\ errLines' = errLines \o firstErr
                                    \o ScanLines(NewOutput(opts.OnStderr, r.Stderr, err1))
                            /\ Return(PollResult(r))
                       ELSE /\ lastStdout' = out1
                            /\ lastStderr' = err1
                            /\ outLines' = outLines \o first
                            /\ errLines' = errLines \o firstErr
                            /\ IF After(now, deadline)
                               THEN Return(NewCommandTimeoutError(r.ID, opts.Timeout))
                               ELSE pc' = "wait" /\ ret' = ret
    /\ UNCHANGED <<given, opts, now, deadline, ctxDone, nSubmit, nStreamSubmit, commandID,
                   status, stdout, stderr, exitCode, events, legacy, resp, box, timeout,
                   restVars>>

\* ------------------------------------------------------- WaitUntilReady
RunVars ==
    <<given, opts, nSubmit, nStreamSubmit, cmd, commandID, status, stdout, stderr,
      exitCode, outLines, errLines, events, legacy, lastStdout, lastStderr>>

\* lines 52-61: the timeout, 60 s unless TAVOR_BOX_TIMEOUT holds an integer
BoxTimeoutConfigured(env) ==
    IF env # <<>> /\ Atoi(env).ok THEN Atoi(env).val ELSE DefaultBoxTimeout

\* lines 51-63: the timeout and the deadline
WaitUntilReady ==
    /\ pc = "init"
    /\ \E env \in EnvTimeouts :
          /\ timeout' = BoxTimeoutConfigured(env)
          /\ deadline' = now + timeout' * 1000
    /\ pc' = "refresh"
    /\ UNCHANGED <<RunVars, restVars, now, ctxDone, nFetch, ret, resp, box>>

\* lines 68-77: what the loop decides once Refresh has stored box b
DecideDeadlineFirst(b) ==
    IF After(now, deadline)
    THEN Return(NewBoxTimeoutError(b.ID, timeout))
    ELSE CASE b.Status = BoxStatusRunning -> Return(Nil)
           [] b.Status \in {BoxStatusFailed, BoxStatusTerminated} ->
                 Return(Failure(<<"box ", b.ID, " failed to start: ", b.Details>>))
           [] OTHER -> pc' = "sleep" /\ ret' = ret

DecideElapsed(b) ==
    CASE b.Status = BoxStatusRunning -> Return(Nil)
      [] b.Status \in {BoxStatusFailed, BoxStatusTerminated} ->
            Return(Failure(<<"box ", b.ID, " failed to start: ", b.Details>>))
      [] After(now, deadline) ->
            Return(NewBoxTimeoutError(b.ID, (now - (deadline - timeout * 1000)) \div 1000))
      [] OTHER -> pc' = "sleep" /\ ret' = ret

DecideUnknownReady(b) ==
    CASE b.Status = BoxStatusRunning -> Return(Nil)
      [] b.Status \in {BoxStatusFailed, BoxStatusTerminated} ->
            Return(Failure(<<"box ", b.ID, " failed to start: ", b.Details>>))
      [] b.Status \notin {BoxStatusQueued, BoxStatusStarting} -> Return(Nil)
      [] After(now, deadline) -> Return(NewBoxTimeoutError(b.ID, timeout))
      [] OTHER -> pc' = "sleep" /\ ret' = ret

Decide(b) ==
    CASE b.Status = BoxStatusRunning -> Return(Nil)
      [] b.Status \in {BoxStatusFailed, BoxStatusTerminated} ->
            Return(Failure(<<"box ", b.ID, " failed to start: ", b.Details>>))
      [] After(now, deadline) -> Return(NewBoxTimeoutError(b.ID, timeout))
      [] OTHER -> pc' = "sleep" /\ ret' = ret

RefreshBoxMerge(old, fetched) ==
    [f \in DOMAIN fetched |-> IF fetched[f] = "" THEN old[f] ELSE fetched[f]]

\* lines 42-48: the response is decoded into a fresh getBoxResponse and
\* h.box is pointed at its Data
RefreshBox(old, fetched) == fetched

\* lines 64-77 with Refresh (lines 41-49): one refresh and the decision on it
Refresh ==
    /\ pc = "refresh"
    /\ nFetch' = nFetch + 1
    /\ \/ /\ Return(Failure(<<"request failed">>))
          /\ UNCHANGED <<box, resp>>
       \/ DoRequestRejected(<<box>>)
       \/ /\ ~ctxDone
          /\ resp' = resp
          /\ box' = RefreshBox(box, remote)
          /\ Decide(box')
    /\ UNCHANGED <<RunVars, restVars, now, deadline, ctxDone, timeout>>

\* the service moves the box to another state
RemoteChange ==
    /\ pc \in {"refresh", "sleep"}
    /\ \E b \in RefreshedBoxes :
          /\ b # remote
          /\ remote' = b
    /\ UNCHANGED <<RunVars, args, snapshot, sseVars, sandboxVars, concVars, pc, now,
                   deadline, ctxDone, nFetch, ret, resp, box, timeout>>

\* lines 79-84, case <-time.After(pollInterval)
SleepElapsed ==
    /\ pc = "sleep"
    /\ \E t \in {now + BoxPollInterval} \cup WaitTimePoints(deadline) :
          /\ t >= now + BoxPollInterval
          /\ nFetch < MaxFetch \/ After(t, deadline)
          /\ now' = t
    /\ pc' = "refresh"
    /\ UNCHANGED <<RunVars, restVars, deadline, ctxDone, nFetch, ret, resp, box, timeout>>

\* lines 79-81, case <-ctx.Done()
SleepCancelled ==
    /\ pc = "sleep"
    /\ ctxDone
    /\ Return(Failure(<<"context canceled">>))
    /\ UNCHANGED <<RunVars, restVars, now, deadline, ctxDone, nFetch, resp, box, timeout>>

\* the caller cancels the context of WaitUntilReady
CancelWait ==
    /\ pc \in {"refresh", "sleep"}
    /\ ~ctxDone
    /\ ctxDone' = TRUE
    /\ UNCHANGED <<RunVars, restVars, pc, now, deadline, nFetch, ret, resp, box, timeout>>

\* time passes while the refresh request is in flight
TickRefresh ==
    /\ pc = "refresh"
    /\ \E t \in WaitTimePoints(deadline) :
          /\ t > now
          /\ now' = t
    /\ UNCHANGED <<RunVars, restVars, pc, deadline, ctxDone, nFetch, ret, resp, box, timeout>>

NextWait ==
    \/ WaitUntilReady
    \/ Refresh
    \/ SleepElapsed
    \/ SleepCancelled
    \/ CancelWait
    \/ TickRefresh
    \/ RemoteChange

\* a handle on which WaitUntilReady is called
InitWait ==
    /\ Init
    /\ given = [Timeout |-> 0, PollInterval |-> 0, OnStdout |-> FALSE, OnStderr |-> FALSE]

SpecWait == InitWait /\ [][NextWait]_vars

Next ==
    \/ Run
    \/ Poll
    \/ WaitElapsed
    \/ WaitCancelled
    \/ Cancel
    \/ Tick
    \/ runWithStreaming
    \/ StreamDeadline
    \/ StartEvent
    \/ OutputEvent
    \/ StatusEvent
    \/ EndEvent
    \/ ErrorEvent
    \/ TimeoutEvent
    \/ UnknownEvent
    \/ StreamClosed
    \/ StreamCancelled

Spec == Init /\ [][Next]_vars

\* both variants of Run
NextBoth ==
    \/ Next
    \/ RunLegacy
    \/ PollLegacy

SpecBoth == Init /\ [][NextBoth]_vars

\* ----------------------------------------------------- WaitSnapshotReady
\* the call: the deadline is taken from the timeout
WaitSnapshotReady ==
    /\ pc = "init"
    /\ \E a \in SnapshotArgs :
          /\ args' = a
          /\ deadline' = now + a.timeout
    /\ pc' = "snapfetch"
    /\ UNCHANGED <<RunVars, remote, snapshot, sseVars, sandboxVars, concVars, now, ctxDone,
                   nFetch, ret, resp, box, timeout>>

SnapshotDecideSeconds(sn) ==
    CASE sn.Status = SnapshotStatusReady -> Return(Nil)
      [] sn.Status \in {SnapshotStatusError, SnapshotStatusDeleted} ->
            Return(Failure(<<"snapshot ", sn.ID, " ended with status: ", sn.Status>>))
      [] After(now, deadline) ->
            Return(NewCommandTimeoutError(sn.ID, args.timeout \div 1000))
      [] OTHER -> pc' = "snapsleep" /\ ret' = ret

SnapshotDecideDeadlineFirst(sn) ==
    IF After(now, deadline)
    THEN Return(NewCommandTimeoutError(sn.ID, args.timeout))
    ELSE CASE sn.Status = SnapshotStatusReady -> Return(Nil)
           [] sn.Status \in {SnapshotStatusError, SnapshotStatusDeleted} ->
                 Return(Failure(<<"snapshot ", sn.ID, " ended with status: ", sn.Status>>))
           [] OTHER -> pc' = "snapsleep" /\ ret' = ret

\* what the loop decides on the fetched snapshot sn: the loop of
\* WaitUntilReady with ready for running and error, deleted for failed,
\* terminated; the timeout error is a CommandTimeoutError in milliseconds
SnapshotDecide(sn) ==
    CASE sn.Status = SnapshotStatusReady -> Return(Nil)
      [] sn.Status \in {SnapshotStatusError, SnapshotStatusDeleted} ->
            Return(Failure(<<"snapshot ", sn.ID, " ended with status: ", sn.Status>>))
      [] After(now, deadline) -> Return(NewCommandTimeoutError(sn.ID, args.timeout))
      [] OTHER -> pc' = "snapsleep" /\ ret' = ret

\* one fetch of the snapshot (GET /api/v2/boxes/<box>/snapshots/<id>) and
\* the decision on it
FetchSnapshot ==
    /\ pc = "snapfetch"
    /\ nFetch' = nFetch + 1
    /\ \/ /\ Return(Failure(<<"request failed">>))
          /\ UNCHANGED <<snapshot, resp>>
       \/ DoRequestRejected(<<snapshot>>)
       \/ /\ ~ctxDone
          /\ resp' = resp
          /\ \E st \in SnapshotStatuses :
                /\ snapshot' = [ID |-> args.snapshotID, Status |-> st]
                /\ SnapshotDecide(snapshot')
    /\ UNCHANGED <<RunVars, remote, args, sseVars, sandboxVars, concVars, now, deadline,
                   ctxDone, box, timeout>>

\* the sleep between two fetches ends
SnapshotSleepElapsed ==
    /\ pc = "snapsleep"
    /\ \E t \in {now + args.pollInterval} \cup TimePoints(deadline) :
          /\ t >= now + args.pollInterval
          /\ nFetch < MaxFetch \/ After(t, deadline)
          /\ now' = t
    /\ pc' = "snapfetch"
    /\ UNCHANGED <<RunVars, restVars, deadline, ctxDone, nFetch, ret, resp, box, timeout>>

\* the context is cancelled during the sleep
SnapshotSleepCancelled ==
    /\ pc = "snapsleep"
    /\ ctxDone
    /\ Return(Failure(<<"context canceled">>))
    /\ UNCHANGED <<RunVars, restVars, now, deadline, ctxDone, nFetch, resp, box, timeout>>

\* the caller cancels the context of WaitSnapshotReady
CancelSnapshot ==
    /\ pc \in {"snapfetch", "snapsleep"}
    /\ ~ctxDone
    /\ ctxDone' = TRUE
    /\ UNCHANGED <<RunVars, restVars, pc, now, deadline, nFetch, ret, resp, box, timeout>>

\* time passes while the fetch is in flight
TickSnapshot ==
    /\ pc = "snapfetch"
    /\ \E t \in TimePoints(deadline) :
          /\ t > now
          /\ now' = t
    /\ UNCHANGED <<RunVars, restVars, pc, deadline, ctxDone, nFetch, ret, resp, box,
                   timeout>>

NextSnapshot ==
    \/ WaitSnapshotReady
    \/ FetchSnapshot
    \/ SnapshotSleepElapsed
    \/ SnapshotSleepCancelled
    \/ CancelSnapshot
    \/ TickSnapshot

SpecSnapshot == InitWait /\ [][NextSnapshot]_vars

\* ---------------------------------------------------------- GetPublicURL
\* what a call returning (string, error) returned
Returned2(str, err) == [kind |-> "pair", Str |-> str, err |-> err]

GetPublicURLUnchecked(b, port) ==
    Returned2(<<"https://", port, "-", b.Hostname>>, Nil)

\* lines 334-339
GetPublicURLOf(b, port) ==
    IF b.Hostname = ""
    THEN Returned2(<<>>, Failure(<<"box does not have a hostname. Ensure the box is created and running">>))
    ELSE Returned2(<<"https://", port, "-", b.Hostname>>, Nil)

\* GetPublicURL called on a fresh handle or after WaitUntilReady returned
GetPublicURL ==
    /\ pc \in {"init", "done"}
    /\ \E port \in Ports :
          /\ args' = <<port>>
          /\ ret' = GetPublicURLOf(box, port)
    /\ pc' = "url"
    /\ UNCHANGED <<RunVars, remote, snapshot, sseVars, sandboxVars, concVars, now,
                   deadline, ctxDone, nFetch, resp, box, timeout>>

NextURL ==
    \/ NextWait
    \/ GetPublicURL

SpecURL == InitWait /\ [][NextURL]_vars

\* ----------------------------------------------------------- WithSandbox
\* client.go lines 227-230: CreateBox; on failure WithSandbox returns its error
WithSandbox ==
    /\ pc = "init"
    /\ wsPc = "idle"
    /\ \/ /\ wsRet' = Failure(<<"request failed">>)
          /\ wsPc' = "notcreated"
       \/ /\ ~ctxDone
          /\ \E r \in RunErrorResponses :
                wsRet' = handleError(r)
          /\ wsPc' = "notcreated"
       \/ /\ ~ctxDone
          /\ wsRet' = wsRet
          /\ wsPc' = "wait"
    /\ UNCHANGED <<RunVars, remote, args, snapshot, sseVars, concVars, nStop, nFn, pc, now,
                   deadline, ctxDone, nFetch, ret, resp, box, timeout>>

\* client.go lines 242-244: WaitUntilReady has returned
WaitReturned ==
    /\ wsPc = "wait"
    /\ pc = "done"
    /\ IF ret = Nil
       THEN wsPc' = "fn" /\ wsRet' = wsRet
       ELSE wsPc' = "stop" /\ wsRet' = ret
    /\ UNCHANGED <<RunVars, remote, args, snapshot, sseVars, concVars, nStop, nFn, pc, now,
                   deadline, ctxDone, nFetch, ret, resp, box, timeout>>

\* what the caller's fn does: it returns nil or an error, or it panics
FnOutcomes == {Nil, Failure(<<"fn failed">>), [kind |-> "panic"]}

\* client.go line 246: fn(ctx, box)
Fn ==
    /\ wsPc = "fn"
    /\ nFn' = nFn + 1
    /\ \E r \in FnOutcomes \cup (IF ctxDone THEN {Failure(<<"context canceled">>)} ELSE {}) :
          wsRet' = r
    /\ wsPc' = "stop"
    /\ UNCHANGED <<RunVars, remote, args, snapshot, sseVars, concVars, nStop, pc, now,
                   deadline, ctxDone, nFetch, ret, resp, box, timeout>>

\* the caller cancels the context while fn runs
CancelFn ==
    /\ wsPc = "fn"
    /\ ~ctxDone
    /\ ctxDone' = TRUE
    /\ UNCHANGED <<RunVars, restVars, pc, now, deadline, nFetch, ret, resp, box, timeout>>

stopCtxIsCallers == ctxDone

\* client.go line 236: the stop runs on context.WithTimeout(context.Background(),
\* 10 s), made when the deferred function starts; it is not done then
stopCtxDone == FALSE

\* box_handle.go 324-326: what the DELETE request of Stop returns
StopOutcomes == {Nil, Failure(<<"request failed">>)}

AfterStopOverrides(r, e) == IF e = Nil THEN r ELSE e

\* client.go lines 235-240: the error of Stop is logged; WithSandbox has no
\* named result the deferred function could set, so what it returns stays r
AfterStop(r, e) == r

\* client.go lines 235-240 with Stop (box_handle.go 324-326): the deferred
\* stop; a request is issued unless its context is done, and its outcome is
\* only logged
DeferredStop ==
    /\ wsPc = "stop"
    /\ nStop' = IF stopCtxDone THEN nStop ELSE nStop + 1
    /\ \E e \in StopOutcomes : wsRet' = AfterStop(wsRet, e)
    /\ wsPc' = "returned"
    /\ UNCHANGED <<RunVars, remote, args, snapshot, sseVars, concVars, nFn, pc, now,
                   deadline, ctxDone, nFetch, ret, resp, box, timeout>>

NextSandbox ==
    \/ WithSandbox
    \/ NextWait
    \/ Cancel
    \/ WaitReturned
    \/ Fn
    \/ CancelFn
    \/ DeferredStop

SpecSandbox == InitWait /\ [][NextSandbox]_vars

\* ------------------------------------------------- the error classifier
\* Client.doRequest: a request is answered outside 2xx
Respond ==
    /\ pc = "init"
    /\ \E r \in ErrorResponses :
          /\ r.StatusCode < 200 \/ r.StatusCode >= 300
          /\ resp' = r
    /\ pc' = "rejected"
    /\ UNCHANGED <<RunVars, restVars, now, deadline, ctxDone, nFetch, ret, box, timeout>>

\* Client.doRequest returns what handleError makes of the response
HandleError ==
    /\ pc = "rejected"
    /\ Return(handleError(resp))
    /\ UNCHANGED <<RunVars, restVars, now, deadline, ctxDone, nFetch, resp, box, timeout>>

NextClassify ==
    \/ Respond
    \/ HandleError

SpecClassify == InitWait /\ [][NextClassify]_vars

\* either operation on a handle: Run or WaitUntilReady
NextAll ==
    \/ Next
    \/ NextWait

SpecAll == Init /\ [][NextAll]_vars

\* ------------------------------------------------------------------ claims
TerminalStatuses == {"done", "failed", "error"}

CallbackSupplied == given.OnStdout \/ given.OnStderr

Started == pc # "init"

\* C1: Run uses streaming mode exactly when a callback is supplied and
\* polling mode otherwise; a Run issues exactly one submit request, and never
\* both a streaming submit and status fetches (nor stream events after a
\* polling submit).
C1_ModeSelection ==
    /\ nSubmit + nStreamSubmit <= 1
    /\ Started =>
         /\ nSubmit + nStreamSubmit = 1
         /\ (nStreamSubmit = 1) <=> CallbackSupplied
    /\ pc = "stream" => CallbackSupplied
    /\ pc \in {"poll", "wait"} => ~CallbackSupplied
    /\ nStreamSubmit > 0 => nFetch = 0 /\ cmd = <<>>
    /\ nSubmit > 0 => events = <<>> /\ outLines = <<>> /\ errLines = <<>>

C1_Witness ==
    /\ pc = "done"
    /\ given.OnStderr /\ ~given.OnStdout
    /\ nStreamSubmit = 1
    /\ Len(events) >= 2
    /\ ret.kind = "result"

C2_PollingInv ==
    /\ (cmd # <<>> /\ cmd[1].Status \in TerminalStatuses) =>
         /\ pc = "done"
         /\ ret.kind = "result"
         /\ ret.Status = cmd[1].Status
         /\ ret.Stdout = cmd[1].Stdout
         /\ ret.Stderr = cmd[1].Stderr
    /\ (nSubmit = 1 /\ ret.kind = "result") =>
         cmd # <<>> /\ cmd[1].Status \in TerminalStatuses
    /\ (cmd # <<>> /\ cmd[1].Status \notin TerminalStatuses /\ pc = "done"
          /\ ret.kind = "CommandTimeoutError") => now > deadline

C2_PollingStep ==
    /\ (cmd # <<>> /\ cmd[1].Status \in TerminalStatuses) => nFetch' = nFetch
    /\ (pc = "poll" /\ nFetch' = nFetch + 1 /\ cmd' # <<>>
          /\ cmd'[1].Status \notin TerminalStatuses /\ now <= deadline
          /\ ret'.kind = "none") => pc' = "wait"

\* C2: in polling mode the first fetch whose status is done, failed or error
\* makes Run return a result with nil error whose Status, Stdout and Stderr
\* are those of that fetch, and no fetch follows it; a fetch showing queued
\* or running never yields a result, and before the deadline it leaves Run
\* polling.
C2_PollingTerminal == []C2_PollingInv /\ [][C2_PollingStep]_vars

C2_Witness ==
    /\ pc = "done"
    /\ nFetch = 3
    /\ ret.kind = "result"
    /\ ret.Status = "failed"
    /\ ret.Stdout # <<>>

\* ---- what the history of processed events amounts to
Last(q) == q[Len(q)]

RECURSIVE Concat(_)
Concat(q) == IF q = <<>> THEN <<>> ELSE Head(q) \o Concat(Tail(q))

IsOutput(e) == e.Event = "output" /\ e.ok

ReceivedStdout(evs) ==
    Concat([i \in 1..Len(evs) |-> IF IsOutput(evs[i]) THEN evs[i].stdout ELSE <<>>])

ReceivedStderr(evs) ==
    Concat([i \in 1..Len(evs) |-> IF IsOutput(evs[i]) THEN evs[i].stderr ELSE <<>>])

KnownID(evs) ==
    LET starts == SelectSeq(evs, LAMBDA e : e.Event = "start" /\ e.ok)
    IN  IF starts = <<>> THEN "" ELSE Last(starts).command_id

ReportedStatus(evs) ==
    LET sts == SelectSeq(evs, LAMBDA e : e.Event = "status" /\ e.ok /\ e.status # Absent)
    IN  IF sts = <<>> THEN "queued" ELSE Last(sts).status

ReportedExit(evs) ==
    LET sts == SelectSeq(evs, LAMBDA e : e.Event = "status" /\ e.ok /\ e.exit_code # {})
    IN  IF sts = <<>> THEN 0 ELSE CHOOSE x \in Last(sts).exit_code : TRUE

Polling == nSubmit = 1
Streaming == nStreamSubmit = 1
SubmitFailed == nFetch = 0 /\ (ret = Failure(<<"request failed">>) \/ resp # NoResponse)
Returned == pc = "done"
TimedOut == ret.kind = "CommandTimeoutError"

TerminalFetched == cmd # <<>> /\ cmd[1].Status \in TerminalStatuses

EndedBy(name) == events # <<>> /\ Last(events).Event = name

ServerSaidTimeout ==
    \/ EndedBy("timeout")
    \/ EndedBy("end") /\ Last(events).ok /\ Last(events).status = "timeout"

\* a terminal state reached the client: a terminal status in a fetch, or an
\* end event that does not report a timeout
TerminalObserved ==
    \/ Polling /\ TerminalFetched
    \/ Streaming /\ EndedBy("end") /\ ~ServerSaidTimeout

C4_TimeoutOnceDeadlineElapsed ==
    (/\ Returned
     /\ ~SubmitFailed
     /\ ~ctxDone
     /\ ret.kind \in {"result", "CommandTimeoutError"}
     /\ now > deadline
     /\ ~(Polling /\ TerminalFetched)
     /\ ~(Streaming /\ events # <<>> /\ Last(events).Event \in TerminalEventNames))
    => TimedOut

C6_EndStatusIsFinal ==
    (Returned /\ EndedBy("end") /\ Last(events).ok /\ Last(events).status # Absent) =>
        LET v == Last(events).status
        IN  /\ v = "timeout" => TimedOut
            /\ v # "timeout" => ret.kind = "result" /\ ret.Status = v

\* C7: when the stream closes with no end, error or timeout event seen, Run
\* returns with nil error a result holding everything accumulated: the start
\* event's id, the last status and exit code, and all stdout and stderr
\* fragments in order.
C7_ClosedStreamResult ==
    (/\ Returned
     /\ Streaming
     /\ ~SubmitFailed
     /\ ~(events # <<>> /\ Last(events).Event \in TerminalEventNames)
     /\ ~(TimedOut /\ now > deadline))
    => ret = [kind |-> "result", ID |-> KnownID(events), BoxID |-> BoxID,
              Cmd |-> CommandText, Status |-> ReportedStatus(events),
              Stdout |-> ReceivedStdout(events), Stderr |-> ReceivedStderr(events),
              ExitCode |-> ReportedExit(events)]

C7_Witness ==
    /\ Returned
    /\ Streaming
    /\ Len(events) = 3
    /\ Last(events).Event \notin TerminalEventNames
    /\ ret.kind = "result"
    /\ ret.ID = CmdID
    /\ ret.Stdout # <<>>
    /\ ret.ExitCode = 42

C8_TerminalInv ==
    /\ (EndedBy("error") /\ Last(events).ok /\ Last(events).error # Absent) =>
          /\ Returned
          /\ ret.kind = "error"
          /\ \E i \in 1..Len(ret.err) : ret.err[i] = Last(events).error
    /\ ServerSaidTimeout =>
          /\ Returned
          /\ ret = [kind |-> "CommandTimeoutError", CommandID |-> KnownID(events),
                    Timeout |-> opts.Timeout]
    /\ \A i \in 1..Len(events) :
          events[i].Event \in TerminalEventNames => i = Len(events) /\ Returned

C8_TerminalStep ==
    (events # <<>> /\ Last(events).Event \in TerminalEventNames) =>
        UNCHANGED <<events, outLines, errLines, ret, pc>>

\* C8: an error event ends Run with an error carrying the payload's error
\* message; a timeout event ends it with the CommandTimeoutError an end event
\* with status timeout gives; after a terminal event nothing more is
\* processed, no callback fires and what Run returns does not change.
C8_TerminalEvents == []C8_TerminalInv /\ [][C8_TerminalStep]_vars

C8_Witness ==
    /\ Returned
    /\ EndedBy("error")
    /\ Last(events).error = "boom"
    /\ outLines # <<>>
    /\ ret.kind = "error"

\* ---- lines of a fragment, stated without the loop that produces them
StripNL(s) == SelectSeq(s, LAMBDA c : c # NL)

CountNL(s) == Len(s) - Len(StripNL(s))

RECURSIVE Join(_)
\* the lines of q with a newline between neighbours
Join(q) ==
    IF q = <<>> THEN <<>>
    ELSE IF Len(q) = 1 THEN q[1]
    ELSE q[1] \o <<NL>> \o Join(Tail(q))

\* q is the newline-separated pieces of the non-empty fragment s, the empty
\* piece after a trailing newline left out
IsLinesOf(q, s) ==
    /\ \A i \in 1..Len(q) : CountNL(q[i]) = 0
    /\ Len(q) = CountNL(s) + (IF Last(s) = NL THEN 0 ELSE 1)
    /\ Join(q) = (IF Last(s) = NL THEN SubSeq(s, 1, Len(s) - 1) ELSE s)

Added(old, new) == SubSeq(new, Len(old) + 1, Len(new))

ScenarioABC ==
    << Ev("start", TRUE, CmdID, <<>>, <<>>, Absent, {}, Absent),
       Ev("output", TRUE, Absent, <<"A", NL, "B">>, <<>>, Absent, {}, Absent),
       Ev("output", TRUE, Absent, <<"C", NL>>, <<>>, Absent, {}, Absent),
       Ev("end", TRUE, Absent, <<>>, <<>>, "done", {}, Absent) >>

C9_Scenario ==
    (given.OnStdout /\ events = ScenarioABC) =>
        /\ Returned
        /\ outLines = << <<"A">>, <<"B">>, <<"C">> >>
        /\ errLines = <<>>

C9_OutputStep ==
    /\ IsPrefix(outLines, outLines')
    /\ IsPrefix(errLines, errLines')
    /\ IF events' # events /\ IsOutput(Last(events'))
       THEN LET e == Last(events')
            IN  /\ IF given.OnStdout /\ e.stdout # <<>>
                   THEN IsLinesOf(Added(outLines, outLines'), e.stdout)
                   ELSE outLines' = outLines
                /\ IF given.OnStderr /\ e.stderr # <<>>
                   THEN IsLinesOf(Added(errLines, errLines'), e.stderr)
                   ELSE errLines' = errLines
       ELSE outLines' = outLines /\ errLines' = errLines

\* C9: each callback receives, in order, the newline-separated pieces of each
\* non-empty fragment of its stream, a non-empty last piece counting and the
\* empty piece after a trailing newline not; nothing else fires a callback;
\* start, output "A\nB", output "C\n", end{done} gives the stdout callback
\* A, B, C and nothing else.
C9_CallbackLines == []C9_Scenario /\ [][C9_OutputStep]_vars

C9_Witness ==
    /\ given.OnStdout
    /\ events = ScenarioABC
    /\ outLines = << <<"A">>, <<"B">>, <<"C">> >>

\* the output of the command that has reached the client so far
SeenStdout == IF legacy THEN (IF cmd = <<>> THEN <<>> ELSE cmd[1].Stdout)
              ELSE ReceivedStdout(events)
SeenStderr == IF legacy THEN (IF cmd = <<>> THEN <<>> ELSE cmd[1].Stderr)
              ELSE ReceivedStderr(events)

\* C10: in one command execution the bytes handed to a stream's callback are,
\* in order and each exactly once, the bytes of that stream in the order they
\* were received (the newlines, which separate the lines, left out); this
\* holds of the streaming loop and of the earlier variant that polls with
\* callbacks.
C10_InOrderOnce ==
    /\ ~legacy => stdout = ReceivedStdout(events) /\ stderr = ReceivedStderr(events)
    /\ given.OnStdout => Concat(outLines) = StripNL(SeenStdout)
    /\ given.OnStderr => Concat(errLines) = StripNL(SeenStderr)
    /\ ~given.OnStdout => outLines = <<>>
    /\ ~given.OnStderr => errLines = <<>>

C10_Witness ==
    /\ ~legacy
    /\ given.OnStdout /\ given.OnStderr
    /\ Len(events) = 3
    /\ Len(outLines) >= 3
    /\ Len(errLines) >= 3
    /\ stdout # stderr

\* ---- the two modes on one remote execution
\* the command a final status fetch returns for the execution whose stream
\* carried the events evs: its output is the total of the fragments
FinalFetch(evs) ==
    [ID |-> CmdID, BoxID |-> BoxID, Cmd |-> CommandText, Status |-> CommandStatusDone,
     Stdout |-> ReceivedStdout(evs), Stderr |-> ReceivedStderr(evs), ExitCode |-> {}]

\* C11: the result a streaming Run returns at the end event has the Stdout
\* and Stderr that a polling Run returns for the same execution, that is
\* those of the final fetch, whose output is the total of the fragments; and
\* a polling Run returns the Stdout and Stderr of its final fetch as they are
C11_SameOutputBothModes ==
    /\ (Streaming /\ Returned /\ ret.kind = "result" /\ EndedBy("end")) =>
          /\ ret.Stdout = PollResult(FinalFetch(events)).Stdout
          /\ ret.Stderr = PollResult(FinalFetch(events)).Stderr
          /\ Len(ret.Stdout) = Len(ReceivedStdout(events))
          /\ Len(ret.Stderr) = Len(ReceivedStderr(events))
    /\ (Polling /\ ~legacy /\ Returned /\ ret.kind = "result") =>
          /\ ret.Stdout = cmd[1].Stdout
          /\ ret.Stderr = cmd[1].Stderr

\* a streaming Run that got two stdout fragments and stderr before the end
C11_Witness ==
    /\ Streaming /\ Returned /\ ret.kind = "result" /\ EndedBy("end")
    /\ Len(SelectSeq(events, LAMBDA e : IsOutput(e) /\ e.stdout # <<>>)) = 2
    /\ ret.Stderr # <<>>
    /\ ret.Stdout = PollResult(FinalFetch(events)).Stdout

\* ---- cancellation
Waiting == pc \in {"wait", "sleep"}
Cancelled == Failure(<<"context canceled">>)

C12_CancelEnabled ==
    (Waiting /\ ctxDone) => ENABLED (WaitCancelled \/ SleepCancelled)

C12_CancelStep ==
    /\ (Waiting /\ ctxDone /\ pc' = "done") => (ret' = Cancelled /\ now' = now)
    /\ (Waiting /\ ctxDone /\ now' = now /\ remote' = remote) =>
          (pc' = "done" /\ ret' = Cancelled)

C12_NoResult ==
    (Returned /\ ctxDone /\ ~Streaming) => ret.kind = "error"

\* C12: while a polling Run or WaitUntilReady waits between two polls with
\* the context cancelled, returning the cancellation error is possible at
\* once; a return from the wait is that error with no time passed, nothing
\* else happens before the poll interval has elapsed, and a call whose
\* context was cancelled returns an error, never a result or nil
C12_CancelledWhileWaiting ==
    /\ []C12_CancelEnabled
    /\ []C12_NoResult
    /\ [][C12_CancelStep]_vars

\* a polling Run cancelled in its wait before the deadline
C12_Witness ==
    /\ Polling /\ Returned /\ ctxDone
    /\ ret = Cancelled
    /\ nFetch >= 1
    /\ now < deadline

\* C13: a streaming Run whose context is cancelled returns a cancellation
\* error, never a result
C13_CancelledStreamIsError ==
    (Streaming /\ Returned /\ ctxDone) => ret.kind = "error"

\* ---- WaitUntilReady
\* this step is a refresh that succeeded
Refreshed ==
    /\ pc = "refresh"
    /\ nFetch' = nFetch + 1
    /\ resp' = resp
    /\ ret' # Failure(<<"request failed">>)

BoxFailed(b) == b.Status \in {BoxStatusFailed, BoxStatusTerminated}

Mentions(msg, text) == \E k \in 1..Len(msg) : msg[k] = text

C14_RefreshStep ==
    /\ Refreshed =>
          /\ box'.Status = BoxStatusRunning => (pc' = "done" /\ ret' = Nil)
          /\ BoxFailed(box') =>
                /\ pc' = "done"
                /\ ret'.kind = "error"
                /\ Mentions(ret'.err, box'.Details)
          /\ (box'.Status # BoxStatusRunning /\ ~BoxFailed(box')) =>
                IF now > deadline
                THEN pc' = "done" /\ ret'.kind = "BoxTimeoutError"
                ELSE pc' = "sleep" /\ ret' = ret
    /\ (pc # "done" /\ pc' = "done" /\ ret' # Cancelled) => nFetch' = nFetch + 1

C14_Decided ==
    Returned =>
       /\ ret = Nil => box.Status = BoxStatusRunning
       /\ ret.kind = "BoxTimeoutError" =>
             (box.Status # BoxStatusRunning /\ ~BoxFailed(box) /\ now > deadline)

\* C14: every decision of WaitUntilReady is taken in the step that refreshed
\* the box; a refresh showing running returns nil, one showing failed or
\* terminated returns an error holding the box's Details, both whether or
\* not the deadline has passed; only for another status is the deadline
\* looked at
C14_WaitDecisions == []C14_Decided /\ [][C14_RefreshStep]_vars

\* a box found failed with details after the deadline
C14_Witness ==
    /\ Returned
    /\ now > deadline
    /\ nFetch >= 2
    /\ ret = Failure(<<"box ", BoxID, " failed to start: ", "no capacity">>)

\* the instant WaitUntilReady took its deadline at, and the whole seconds
\* gone since
WaitBegan == deadline - timeout * 1000
ElapsedSeconds == (now - WaitBegan) \div 1000
BoxTimedOut == Returned /\ ret.kind = "BoxTimeoutError"

\* C15: the BoxTimeoutError of WaitUntilReady carries the seconds elapsed
\* since the wait began
C15_TimeoutIsElapsed ==
    BoxTimedOut => (ret.BoxID = box.ID /\ ret.Timeout = ElapsedSeconds)

\* C15, amended: the BoxTimeoutError of WaitUntilReady is for the refreshed
\* box and carries the configured timeout in seconds (60, or the integer in
\* TAVOR_BOX_TIMEOUT), which the time elapsed exceeds
C15_TimeoutIsConfigured ==
    BoxTimedOut =>
       /\ ret = NewBoxTimeoutError(box.ID, timeout)
       /\ ret.Timeout \in { BoxTimeoutConfigured(env) : env \in EnvTimeouts }
       /\ now - WaitBegan > ret.Timeout * 1000

\* a wait configured for 2 s that gave up one second late
C15_Witness ==
    /\ BoxTimedOut
    /\ ret.Timeout = 2
    /\ ElapsedSeconds = 3

\* the kinds of the error taxonomy
TaxonomyKinds ==
    {"AuthenticationError", "BoxNotFoundError", "CommandTimeoutError", "BoxTimeoutError",
     "RateLimitError", "ValidationError", "InsufficientCreditsError", "APIError"}

\* errors that are not of the SDK's making: the context's and the transport's
PassedThrough == {Cancelled, Failure(<<"request failed">>)}

\* C16: a failure WaitUntilReady returns, the one for a failed or terminated
\* box included, is a typed error of the taxonomy
C16_FailuresAreTyped ==
    (Returned /\ ret # Nil /\ ret \notin PassedThrough) => ret.kind \in TaxonomyKinds

\* ---- non-2xx responses
Rejected == resp # NoResponse

\* C17: a non-2xx answer to the submit or to a fetch ends Run in that step,
\* in either mode, with the classifier's error for that status and body
C17_RejectedIsClassified ==
    Rejected =>
       /\ Returned
       /\ ret.kind \in TaxonomyKinds
       /\ resp.body.form = "json" => ret = parseError(resp.StatusCode, resp.body)

\* ---- the classifier
\* handleError has classified a response whose body decoded
Classified == Returned /\ Rejected /\ resp.body.form = "json"

\* C18: the kind parseError returns depends on the status and the code
\* only: 401 AuthenticationError, 429 RateLimitError with RetryAfter 0,
\* 400 ValidationError exactly for code validation_error, 404
\* BoxNotFoundError exactly for code box_not_found, and APIError with the
\* response's status in every other case
C18_KindByStatusAndCode ==
    Classified =>
       LET st == resp.StatusCode
           code == resp.body.Code
           generic == ret.kind = "APIError" /\ ret.StatusCode = st
       IN  /\ \A b \in JSONBodies : b.Code = code => parseError(st, b).kind = ret.kind
           /\ st = 401 => ret.kind = "AuthenticationError"
           /\ st = 429 => (ret.kind = "RateLimitError" /\ ret.RetryAfter = 0)
           /\ st = 400 => IF code = "validation_error"
                          THEN ret.kind = "ValidationError" ELSE generic
           /\ st = 404 => IF code = "box_not_found"
                          THEN ret.kind = "BoxNotFoundError" ELSE generic
           /\ st \notin {400, 401, 404, 429} => generic

\* a 404 with code box_not_found and one with another code
C18_Witness ==
    /\ Classified
    /\ resp.StatusCode = 404
    /\ resp.body.Code = "box_not_found"
    /\ ret.kind = "BoxNotFoundError"
    /\ parseError(404, Body("json", "", "unauthorized", "", "api_error")).kind = "APIError"

\* C19: for every status the text of the classified error is the body's
\* message when it is not empty and the body's error otherwise
C19_TextIsMessageElseError ==
    Classified => ret.Message = <<BodyText(resp.body)>>

\* C20: a 402 is classified as InsufficientCreditsError
C20_PaymentRequiredIsInsufficientCredits ==
    (Classified /\ resp.StatusCode = 402) => ret.kind = "InsufficientCreditsError"

\* ---- GetPublicURL
\* C21: GetPublicURL on a box with an empty hostname returns the empty
\* string and an error; with hostname h and port p it returns https://p-h
\* and a nil error; a returned URL never has an empty host
C21_PublicURL ==
    pc = "url" =>
       /\ box.Hostname = "" => (ret.Str = <<>> /\ ret.err.kind = "error")
       /\ box.Hostname # "" =>
             (ret.Str = <<"https://", args[1], "-", box.Hostname>> /\ ret.err = Nil)
       /\ ret.Str # <<>> => Last(ret.Str) # ""

\* both cases on one handle: a URL after the refresh brought a hostname
C21_Witness ==
    /\ pc = "url"
    /\ nFetch >= 1
    /\ box.Hostname = "h1.example"
    /\ ret = Returned2(<<"https://", 8080, "-", "h1.example">>, Nil)
    /\ GetPublicURLOf(NewBox, 8080).err.kind = "error"

\* ---- Refresh
C27_RefreshStep ==
    /\ Refreshed => box' = remote
    /\ (Refreshed /\ nFetch >= 1 /\ box = remote) => box' = box

\* C27: a successful refresh leaves the handle with exactly the box of the
\* response, every field replaced and none merged with the old value; so a
\* refresh of a handle that already holds the service's box changes nothing
C27_RefreshReplaces == [][C27_RefreshStep]_vars

\* two refreshes done, the handle holding the service's box, which by now
\* has a hostname
C27_Witness ==
    /\ pc = "sleep"
    /\ nFetch >= 2
    /\ box = remote
    /\ box.Hostname # ""

\* ---- WithSandbox
Created == wsPc \in {"wait", "fn", "stop", "returned"}

\* C22: once CreateBox has succeeded, WithSandbox issues no Stop request
\* until it is about to return and has issued exactly one when it returns
\* (or unwinds), whether WaitUntilReady failed, fn failed, fn succeeded or
\* the context was cancelled; when CreateBox failed it issues none
C22_StoppedOnce ==
    /\ wsPc \in {"idle", "notcreated", "wait", "fn", "stop"} => nStop = 0
    /\ wsPc = "returned" => nStop = 1

\* the context cancelled during the wait: WithSandbox returns the
\* cancellation error after one Stop
C22_Witness ==
    /\ wsPc = "returned"
    /\ ctxDone
    /\ wsRet = Cancelled
    /\ nFn = 0
    /\ nStop = 1

\* ---- WaitSnapshotReady
\* this step is a fetch of the snapshot that succeeded
SnapshotFetched ==
    /\ pc = "snapfetch"
    /\ nFetch' = nFetch + 1
    /\ resp' = resp
    /\ ret' # Failure(<<"request failed">>)

SnapshotEnded(sn) == sn.Status \in {SnapshotStatusError, SnapshotStatusDeleted}

C23_FetchStep ==
    SnapshotFetched =>
       /\ snapshot'.Status = SnapshotStatusReady => (pc' = "done" /\ ret' = Nil)
       /\ SnapshotEnded(snapshot') =>
             /\ pc' = "done"
             /\ ret' = Failure(<<"snapshot ", args.snapshotID, " ended with status: ",
                                 snapshot'.Status>>)

C23_NoEarlierPoll ==
    /\ pc \in {"snapfetch", "snapsleep"} =>
          (snapshot.Status # SnapshotStatusReady /\ ~SnapshotEnded(snapshot))
    /\ (Returned /\ ret = Nil) => snapshot.Status = SnapshotStatusReady

\* C23: the fetch that shows ready makes WaitSnapshotReady return nil and
\* the fetch that shows error or deleted makes it fail with "snapshot <id>
\* ended with status: <status>", in that step and whether or not the
\* deadline has passed; no earlier fetch showed any of the three
C23_SnapshotDecisions == []C23_NoEarlierPoll /\ [][C23_FetchStep]_vars

\* ready at the third fetch
C23_Witness ==
    /\ Returned
    /\ ret = Nil
    /\ nFetch = 3
    /\ snapshot.Status = SnapshotStatusReady

\* C24: when the deadline passes with the snapshot still not in a terminal
\* status, WaitSnapshotReady returns a CommandTimeoutError whose Timeout is
\* the timeout it was called with, in milliseconds
C24_SnapshotTimeout ==
    (Returned /\ ret.kind = "CommandTimeoutError") =>
       /\ ret.Timeout = args.timeout
       /\ snapshot.Status \in {SnapshotStatusCreating, SnapshotStatusRestoring}
       /\ now > deadline

\* the 50 ms deadline passed on a snapshot still creating
C24_Witness ==
    /\ Returned
    /\ ret.kind = "CommandTimeoutError"
    /\ ret.Timeout = 50
    /\ args.timeout = 50
    /\ snapshot.Status = SnapshotStatusCreating
    /\ nFetch >= 2

\* ---- the exit code
\* an optional number, 0 when it is absent
OrZero(opt) == IF opt = {} THEN 0 ELSE CHOOSE x \in opt : TRUE

MaxCalls == 2
Handles == {"h1", "h2"}
\* the command of the k-th goroutine (main.go lines 36-42: one command each)
ConcCommand(k) == <<"echo ", k>>

\* both handles stand for the same remote box
HandleBoxID(h) == BoxID

\* the identifier the service gives the n-th command it queues
CommandIDOf(n) == <<"cmd-", n>>

\* the service's record of the command with identifier id
ServiceCommand(id) == commands[id[2]]

\* what the service does with a queued or running command
ServiceNext(c) ==
    IF c.Status = CommandStatusQueued
    THEN {[c EXCEPT !.Status = CommandStatusRunning]}
    ELSE {[c EXCEPT !.Status = CommandStatusDone, !.Stdout = c.Cmd, !.ExitCode = {0}]}

concUnchanged ==
    UNCHANGED <<pc, given, opts, deadline, nSubmit, nStreamSubmit, cmd, commandID,
                status, stdout, stderr, exitCode, outLines, errLines, events, ret,
                legacy, lastStdout, lastStderr, resp, box, timeout, remote, args,
                snapshot, sseVars, sandboxVars>>

\* the return of call k
ConcReturn(k, r) == calls' = [calls EXCEPT ![k].pc = "done", ![k].ret = r]

\* lines 88-118, opts nil: a goroutine enters Run; the submit either fails or
\* is answered with the identifier of the command the service queued.  late
\* says whether the clock has passed the deadline the call set at line 117
ConcRun ==
    /\ Len(calls) < MaxCalls
    /\ \E h \in Handles :
          LET k == Len(calls) + 1
              c == ConcCommand(k)
              id == CommandIDOf(Len(commands) + 1)
              call == [pc |-> "poll", handle |-> h, command |-> c, commandID |-> id,
                       late |-> FALSE, polled |-> {},
                       ret |-> NoReturn]
          IN \/ /\ calls' = Append(calls, [call EXCEPT !.pc = "done",
                                             !.commandID = <<>>,
                                             !.ret = Failure(<<"request failed">>)])
                /\ commands' = commands
             \/ /\ ~ctxDone
                /\ calls' = Append(calls, call)
                /\ commands' = Append(commands,
                      [ID |-> id, BoxID |-> HandleBoxID(h), Cmd |-> c,
                       Status |-> CommandStatusQueued, Stdout |-> <<>>,
                       Stderr |-> <<>>, ExitCode |-> {}, from |-> k])
    /\ UNCHANGED <<now, ctxDone, nFetch>>
    /\ concUnchanged

\* the service works on one of its commands
ServiceStep ==
    /\ \E n \in DOMAIN commands :
          /\ ~IsTerminalStatus(commands[n].Status)
          /\ \E c \in ServiceNext(commands[n]) :
                commands' = [commands EXCEPT ![n] = c]
    /\ UNCHANGED <<now, ctxDone, nFetch, calls>>
    /\ concUnchanged

PolledIDShared(c) == CommandIDOf(Len(commands))

\* line 124: the identifier in the path of a status fetch is the local
\* commandID of the call
PolledID(c) == c.commandID

\* lines 121-150: one status fetch of call k and what it decides
ConcPoll ==
    /\ \E k \in DOMAIN calls :
          LET c == calls[k]
              id == PolledID(c)
              r == ServiceCommand(id)
              fetched == [ID |-> r.ID, BoxID |-> r.BoxID, Cmd |-> r.Cmd,
                          Status |-> r.Status, Stdout |-> r.Stdout,
                          Stderr |-> r.Stderr, ExitCode |-> r.ExitCode]
          IN /\ c.pc = "poll"
             /\ \/ ConcReturn(k, Failure(<<"request failed">>))
                \/ /\ ~ctxDone
                   /\ r.BoxID = HandleBoxID(c.handle)
                   /\ calls' =
                        IF IsTerminalStatus(r.Status)
                        THEN [calls EXCEPT ![k].polled = @ \cup {id}, ![k].pc = "done",
                                           ![k].ret = PollResult(fetched)]
                        ELSE IF c.late
                        THEN [calls EXCEPT ![k].polled = @ \cup {id}, ![k].pc = "done",
                                           ![k].ret = NewCommandTimeoutError(r.ID,
                                                          DefaultTimeout)]
                        ELSE [calls EXCEPT ![k].polled = @ \cup {id}, ![k].pc = "wait"]
    /\ nFetch' = nFetch + 1
    /\ UNCHANGED <<now, ctxDone, commands>>
    /\ concUnchanged

\* lines 152-157, case <-time.After(pollInterval) of call k: the deadline
\* of the call may pass while it sleeps
ConcWaitElapsed ==
    /\ \E k \in DOMAIN calls, l \in BOOLEAN :
          /\ calls[k].pc = "wait"
          /\ calls[k].late => l
          /\ nFetch < MaxFetch \/ l
          /\ calls' = [calls EXCEPT ![k].pc = "poll", ![k].late = l]
    /\ UNCHANGED <<now, ctxDone, nFetch, commands>>
    /\ concUnchanged

\* lines 152-154, case <-ctx.Done() of call k
ConcWaitCancelled ==
    /\ ctxDone
    /\ \E k \in DOMAIN calls :
          /\ calls[k].pc = "wait"
          /\ ConcReturn(k, Failure(<<"context canceled">>))
    /\ UNCHANGED <<now, ctxDone, nFetch, commands>>
    /\ concUnchanged

\* the context the goroutines share is cancelled
ConcCancel ==
    /\ calls # <<>>
    /\ ~ctxDone
    /\ ctxDone' = TRUE
    /\ UNCHANGED <<now, nFetch, calls, commands>>
    /\ concUnchanged

NextConc ==
    \/ ConcRun
    \/ ServiceStep
    \/ ConcPoll
    \/ ConcWaitElapsed
    \/ ConcWaitCancelled
    \/ ConcCancel

SpecConc == InitWait /\ [][NextConc]_vars

\* C26: each concurrent call polls only the command its own submit queued
\* and what it returns is that command's result (or its timeout)
C26_NoInterference ==
    \A k \in DOMAIN calls :
       LET c == calls[k]
       IN /\ \A id \in c.polled : id = c.commandID /\ ServiceCommand(id).from = k
          /\ c.ret.kind = "result" =>
                /\ c.ret.ID = c.commandID
                /\ c.ret.Cmd = c.command
                /\ c.ret.Status = ServiceCommand(c.commandID).Status
                /\ c.ret.Stdout = ServiceCommand(c.commandID).Stdout
                /\ c.ret.Stderr = ServiceCommand(c.commandID).Stderr
                /\ c.ret.ExitCode = OrZero(ServiceCommand(c.commandID).ExitCode)
          /\ c.ret.kind = "CommandTimeoutError" => c.ret.CommandID = c.commandID

\* two calls with different commands were in flight together, one through
\* each handle or both through one, and both returned a result
C26_Witness ==
    /\ Len(calls) = 2
    /\ calls[1].ret.kind = "result" /\ calls[2].ret.kind = "result"
    /\ calls[1].ret.Stdout # calls[2].ret.Stdout
    /\ calls[1].handle = calls[2].handle
    /\ ServiceCommand(calls[2].commandID).from = 2
    /\ Cardinality(calls[1].polled) = 1

\* ---- the deadline of the streaming loop
PastDeadline == pc = "stream" /\ After(now, deadline)

\* once the deadline has passed nothing is processed, and a Run that ends
\* without a result ends with the timeout error
C28_LateStep ==
    PastDeadline =>
       /\ UNCHANGED <<events, stdout, stderr, outLines, errLines, status, exitCode,
                      commandID>>
       /\ (pc' = "done" /\ ret'.kind # "result") =>
             ret' = NewCommandTimeoutError(commandID, opts.Timeout)

\* the timeout error of a streaming Run carries the id of the start event,
\* the empty string when none arrived
C28_KnownID ==
    (Streaming /\ TimedOut) =>
       ret.CommandID = (IF \E i \in 1..Len(events) : events[i].Event = "start" /\ events[i].ok
                        THEN KnownID(events) ELSE "")

\* C28: in streaming mode the deadline is checked before each event is
\* processed: an event taken off the stream after the deadline fires no
\* callback, appends no output and gives no result from an end; Run returns
\* a CommandTimeoutError with the command id learned so far, empty without a
\* start event
C28_DeadlineBeforeEvent == []C28_KnownID /\ [][C28_LateStep]_vars

\* an event arrived after the deadline of a Run that had processed output
\* but no start event
C28_Witness ==
    /\ Streaming /\ Returned /\ TimedOut
    /\ After(now, deadline)
    /\ ~ServerSaidTimeout
    /\ outLines # <<>>
    /\ \A i \in 1..Len(events) : events[i].Event # "start"
    /\ ret.CommandID = ""

\* ---- the partial tail of a fragment
\* the text of fragment s after its last newline
PartialTail(s) ==
    LET nls == {i \in 1..Len(s) : s[i] = NL}
    IN  IF nls = {} THEN s
        ELSE SubSeq(s, (CHOOSE i \in nls : \A j \in nls : j <= i) + 1, Len(s))

\* the calls a fragment may add to a callback when its partial tail is not
\* to fire one: at most one per newline
NoTailCall(added, s) ==
    PartialTail(s) # <<>> => Len(added) <= CountNL(s)

\* C29 as stated: when an output fragment does not end with a newline, no
\* callback is fired for the text after its last newline
C29_NoCallbackForTail ==
    [][(events' # events /\ IsOutput(Last(events'))) =>
          LET e == Last(events')
          IN  /\ e.stdout # <<>> => NoTailCall(Added(outLines, outLines'), e.stdout)
              /\ e.stderr # <<>> => NoTailCall(Added(errLines, errLines'), e.stderr)]_vars

\* ------------------------------------------ the event-stream decoder
\* (part_004 lines 38-71, ParseSSE)
\* most lines of one input of the decoder
MaxLines == 6

EventPrefix == <<"e", "v", "e", "n", "t", ":", " ">>
DataPrefix == <<"d", "a", "t", "a", ":", " ">>

\* the lines scanner.Text() can give: a blank line, name lines, data lines
\* (one with nothing after the prefix) and a line with neither prefix
SSELines ==
    { <<>>,
      EventPrefix \o <<"a">>,
      EventPrefix \o <<"b">>,
      DataPrefix \o <<"x">>,
      DataPrefix,
      <<"e", "v", "e", "n", "t", ":", "a">> }

\* strings.CutPrefix(line, prefix): found, and the rest of the line
HasPrefix(line, prefix) == IsPrefix(prefix, line)
CutPrefix(line, prefix) == SubSeq(line, Len(prefix) + 1, Len(line))

SSEEvent(e, d) == [Event |-> e, Data |-> d]

sseUnchanged ==
    UNCHANGED <<RunVars, now, deadline, ctxDone, nFetch, ret, resp, box, timeout,
                remote, args, snapshot, sandboxVars, concVars>>

\* lines 38-45: ParseSSE starts the goroutine with empty event and data
ParseSSE ==
    /\ pc = "init"
    /\ pc' = "sse"
    /\ scanner' = <<>>
    /\ event' = <<>>
    /\ data' = <<>>
    /\ emitted' = <<>>
    /\ sseUnchanged

ScanLineNoReset ==
    /\ pc = "sse"
    /\ Len(scanner) < MaxLines
    /\ \E line \in SSELines :
          /\ scanner' = Append(scanner, line)
          /\ IF line = <<>>
             THEN /\ emitted' = IF event # <<>> /\ data # <<>>
                                THEN Append(emitted, SSEEvent(event, data))
                                ELSE emitted
                  /\ UNCHANGED <<event, data>>
             ELSE IF HasPrefix(line, EventPrefix)
             THEN /\ event' = CutPrefix(line, EventPrefix)
                  /\ UNCHANGED <<data, emitted>>
             ELSE IF HasPrefix(line, DataPrefix)
             THEN /\ data' = CutPrefix(line, DataPrefix)
                  /\ UNCHANGED <<event, emitted>>
             ELSE UNCHANGED <<event, data, emitted>>
    /\ pc' = pc
    /\ sseUnchanged

\* lines 47-67: one turn of the scan loop; scanner holds the lines read so far
ScanLine ==
    /\ pc = "sse"
    /\ Len(scanner) < MaxLines
    /\ \E line \in SSELines :
          /\ scanner' = Append(scanner, line)
          /\ IF line = <<>>
             THEN /\ emitted' = IF event # <<>> /\ data # <<>>
                                THEN Append(emitted, SSEEvent(event, data))
                                ELSE emitted
                  /\ event' = <<>>
                  /\ data' = <<>>
             ELSE IF HasPrefix(line, EventPrefix)
             THEN /\ event' = CutPrefix(line, EventPrefix)
                  /\ UNCHANGED <<data, emitted>>
             ELSE IF HasPrefix(line, DataPrefix)
             THEN /\ data' = CutPrefix(line, DataPrefix)
                  /\ UNCHANGED <<event, emitted>>
             ELSE UNCHANGED <<event, data, emitted>>
    /\ pc' = pc
    /\ sseUnchanged

\* lines 41 and 47: scanner.Scan() returns false (end of input or a failed
\* read) and the deferred close(events) runs
ScanEnd ==
    /\ pc = "sse"
    /\ pc' = "closed"
    /\ UNCHANGED sseVars
    /\ sseUnchanged

NextSSE ==
    \/ ParseSSE
    \/ ScanLine
    \/ ScanEnd

SpecSSE == InitWait /\ [][NextSSE]_vars

\* ---- the blocks of an input
RECURSIVE BlocksOf(_)
\* the runs of lines between the blank lines of ls, the run before the first
\* blank line and the run after the last one included
BlocksOf(ls) ==
    IF \A i \in 1..Len(ls) : ls[i] # <<>>
    THEN <<ls>>
    ELSE LET i == CHOOSE j \in 1..Len(ls) :
                     ls[j] = <<>> /\ \A k \in 1..(j - 1) : ls[k] # <<>>
         IN  <<SubSeq(ls, 1, i - 1)>> \o BlocksOf(SubSeq(ls, i + 1, Len(ls)))

\* the blocks a blank line ends
TerminatedBlocks(ls) == SubSeq(BlocksOf(ls), 1, Len(BlocksOf(ls)) - 1)

\* what the last line of block b with the prefix carries, empty without one
FieldOf(b, prefix) ==
    LET with == SelectSeq(b, LAMBDA l : HasPrefix(l, prefix))
    IN  IF with = <<>> THEN <<>> ELSE CutPrefix(Last(with), prefix)

HasBoth(b) == FieldOf(b, EventPrefix) # <<>> /\ FieldOf(b, DataPrefix) # <<>>

\* one pair per block with a name and non-empty data, in order
PairsOf(blocks) ==
    LET full == SelectSeq(blocks, HasBoth)
    IN  [i \in 1..Len(full) |->
            SSEEvent(FieldOf(full[i], EventPrefix), FieldOf(full[i], DataPrefix))]

\* C30 as stated: for every input, once the decoder has read it all, the
\* pairs it emitted are one per block of the input with a name and
\* non-empty data, in input order
C30_OnePerBlock ==
    pc = "closed" => emitted = PairsOf(BlocksOf(scanner))

\* C30: the pairs emitted are, in input order, one per block that a blank
\* line ends and that has a name and non-empty data; a block missing either
\* is dropped, nothing of a block carries over into a later one, and a last
\* block the input ends without a blank line after is never emitted
C30_OnePerTerminatedBlock ==
    pc \in {"sse", "closed"} => emitted = PairsOf(TerminatedBlocks(scanner))

\* an input of a block with a name only and a block with a name and data,
\* each ended by a blank line, read to its end
C30_Witness ==
    /\ pc = "closed"
    /\ Len(TerminatedBlocks(scanner)) = 2
    /\ TerminatedBlocks(scanner)[1] = <<EventPrefix \o <<"a">>>>
    /\ HasBoth(TerminatedBlocks(scanner)[2])
    /\ emitted = <<SSEEvent(<<"b">>, <<"x">>)>>

\* ---- the tracked command status
\* the status the running call holds: the local status of the streaming loop,
\* the status of the last fetch of the polling loop
TrackedStatus ==
    IF Streaming THEN status
    ELSE IF cmd # <<>> THEN cmd[1].Status ELSE CommandStatusQueued

\* the place of a status in queued, running, then done, failed or error
StatusRank(s) ==
    IF s = CommandStatusQueued THEN 0
    ELSE IF s = CommandStatusRunning THEN 1
    ELSE 2

\* C31 as stated: the tracked status only moves forward through queued,
\* running, then done, failed or error, and a terminal value never changes
C31_StatusMovesForward ==
    [][(pc \in {"poll", "wait", "stream"} /\ pc' # "init") =>
          /\ StatusRank(TrackedStatus') >= StatusRank(TrackedStatus)
          /\ IsTerminalStatus(TrackedStatus) => TrackedStatus' = TrackedStatus]_vars

\* ---- the command id and the output
\* this step appends an output fragment or hands one to a callback
OutputProcessed ==
    \/ stdout' # stdout
    \/ stderr' # stderr
    \/ outLines' # outLines
    \/ errLines' # errLines

StartSeen(evs) == \E i \in 1..Len(evs) : evs[i].Event = "start" /\ evs[i].ok

\* C32 as stated: in streaming mode no output fragment is appended or
\* dispatched while the command id is unknown, and the result's ID is the
\* start event's command id
C32_IdBeforeOutput ==
    /\ [](Streaming /\ Returned /\ ret.kind = "result" =>
             StartSeen(events) /\ ret.ID = KnownID(events))
    /\ [][(pc = "stream" /\ OutputProcessed) => StartSeen(events) /\ commandID # ""]_vars

\* ---- whole lines in the variant that polls with callbacks
\* the part of s up to and including its last newline
UpToLastNL(s) ==
    LET nls == {i \in 1..Len(s) : s[i] = NL}
    IN  IF nls = {} THEN <<>>
        ELSE SubSeq(s, 1, CHOOSE i \in nls : \A j \in nls : j <= i)

\* the lines of output s that may have been delivered when no line is to be
\* delivered in pieces: the complete ones, and the trailing one once the
\* command has ended
WholeLines(s, ended) == IF ended THEN ScanLines(s) ELSE ScanLines(UpToLastNL(s))

\* C33 as stated: in the variant that polls with callbacks each fetch
\* delivers the newly appended bytes as whole lines, an incomplete trailing
\* line being held back until a later fetch completes it or the command ends
C33_WholeLinesOnly ==
    (legacy /\ cmd # <<>>) =>
       /\ given.OnStdout =>
             outLines = WholeLines(cmd[1].Stdout, IsTerminalStatus(cmd[1].Status))
       /\ given.OnStderr =>
             errLines = WholeLines(cmd[1].Stderr, IsTerminalStatus(cmd[1].Status))

\* ---- the order of fetch, status and deadline in the polling loop
\* C34: after a successful submit a polling Run fetches the status at least
\* once and looks at it before the deadline: a terminal fetch gives the
\* result even past the deadline, and a CommandTimeoutError only follows a
\* fetch that reported a non-terminal status
C34_StatusBeforeDeadline ==
    (Polling /\ ~legacy) =>
       /\ (Returned /\ commandID = CmdID) => nFetch >= 1
       /\ TerminalFetched => Returned /\ ret = PollResult(cmd[1])
       /\ TimedOut =>
             /\ cmd # <<>>
             /\ ~IsTerminalStatus(cmd[1].Status)
             /\ After(now, deadline)

\* a terminal status fetched after the deadline gave a result
C34_Witness ==
    /\ Polling /\ ~legacy /\ Returned
    /\ After(now, deadline)
    /\ TerminalFetched
    /\ nFetch > 1
    /\ ret.kind = "result"

\* ---- statuses that decide nothing
Decisive(st) == st \in {BoxStatusRunning, BoxStatusFailed, BoxStatusTerminated}

C35_RefreshStep ==
    (Refreshed /\ ~Decisive(box'.Status)) =>
       IF After(now, deadline)
       THEN pc' = "done" /\ ret' = NewBoxTimeoutError(box'.ID, timeout)
       ELSE pc' = "sleep" /\ ret' = ret

C35_NoEarlyReturn ==
    (Returned /\ ~Decisive(box.Status)) =>
       /\ ret # Nil
       /\ ret.kind = "error" => ~Mentions(ret.err, " failed to start: ")
       /\ ret.kind = "BoxTimeoutError" => After(now, deadline)

\* C35: WaitUntilReady takes every status other than running, failed and
\* terminated as not ready yet: a refresh showing one never returns nil or
\* the failed-to-start error, it sleeps before the deadline and gives a
\* BoxTimeoutError after it
C35_OtherStatusWaits == []C35_NoEarlyReturn /\ [][C35_RefreshStep]_vars

\* a wait that saw a stopped box, slept, and timed out on an unknown status
C35_Witness ==
    /\ Returned
    /\ box.Status = UnknownBoxStatus
    /\ remote.Status = UnknownBoxStatus
    /\ nFetch >= 2
    /\ ret.kind = "BoxTimeoutError"

\* ---- the steps of WithSandbox
C36_Order ==
    /\ nFn <= 1
    /\ nFn = 1 => (Created /\ wsPc \in {"stop", "returned"} /\ pc = "done" /\ ret = Nil)
    /\ wsPc = "notcreated" =>
          /\ nFn = 0 /\ nStop = 0
          /\ wsRet.kind \notin {"none", "nil"}
    /\ wsPc \in {"stop", "returned"} =>
          IF ret = Nil
          THEN nFn = 1 /\ wsRet \in FnOutcomes \cup {Failure(<<"context canceled">>)}
          ELSE nFn = 0 /\ wsRet = ret /\ wsRet # Nil
    /\ nStop = 1 => wsPc = "returned"

C36_Step ==
    /\ (wsPc = "idle" /\ wsPc' # "idle") => (pc = "init" /\ nFetch = 0 /\ pc' = pc)
    /\ wsPc \in {"fn", "stop", "returned"} => (pc' = pc /\ nFetch' = nFetch)
    /\ nFn' # nFn => (wsPc = "fn" /\ nStop = 0 /\ nStop' = 0)
    /\ wsPc \in {"stop", "returned", "notcreated"} => wsRet' = wsRet

\* C36: WithSandbox calls fn at most once and only after CreateBox succeeded
\* and WaitUntilReady returned nil; the effects come in the order create,
\* wait, fn, stop; it returns the error of the first of create, wait and fn
\* that failed, nil if none did, whatever Stop returns
C36_SandboxSteps == []C36_Order /\ [][C36_Step]_vars

\* fn ran once and failed; WithSandbox returned its error after the stop
C36_Witness ==
    /\ wsPc = "returned"
    /\ nFn = 1
    /\ nStop = 1
    /\ wsRet = Failure(<<"fn failed">>)

\* -------------------------- a second Run on the same handle (part_007)
\* most Runs made on one handle
MaxRuns == 2

\* part_007 lines 86-110 on a handle an earlier Run has returned on: the
\* locals of the call are new, the fields lastStdout and lastStderr of the
\* handle (lines 13-18) are what the earlier Run left; outLines and errLines
\* hold the callback calls of the current Run
RunLegacyAgain ==
    /\ pc = "done"
    /\ legacy
    /\ nSubmit < MaxRuns
    /\ nSubmit' = nSubmit + 1
    /\ nFetch' = 0
    /\ cmd' = <<>>
    /\ outLines' = <<>>
    /\ errLines' = <<>>
    /\ \E ok \in BOOLEAN :
          /\ ctxDone => ~ok
          /\ IF ok
             THEN /\ commandID' = CmdID
                  /\ deadline' = now + opts.Timeout
                  /\ pc' = "poll"
                  /\ ret' = NoReturn
             ELSE /\ Return(Failure(<<"request failed">>))
                  /\ UNCHANGED <<commandID, deadline>>
    /\ UNCHANGED <<given, opts, now, ctxDone, nStreamSubmit, status, stdout, stderr,
                   exitCode, events, legacy, lastStdout, lastStderr, resp, box, timeout,
                   restVars>>

NextHandle ==
    \/ RunLegacy
    \/ PollLegacy
    \/ WaitElapsed
    \/ WaitCancelled
    \/ Cancel
    \/ Tick
    \/ RunLegacyAgain

SpecHandle == Init /\ [][NextHandle]_vars

\* C37 as stated: in the variant that polls with callbacks the bytes
\* delivered to a callback during one Run are that command's own output,
\* whatever an earlier Run on the same handle left as last-seen output
C37_OwnOutputEachRun ==
    (legacy /\ pc \in {"poll", "wait", "done"} /\ cmd # <<>>) =>
       /\ given.OnStdout => Concat(outLines) = StripNL(cmd[1].Stdout)
       /\ given.OnStderr => Concat(errLines) = StripNL(cmd[1].Stderr)

\* ---- events that are skipped
KnownEventNames == {"start", "output", "status", "end", "error", "timeout"}

\* an event of an unknown name, or a start, output or status event whose
\* payload ParseSSEData cannot decode
Skipped(e) ==
    \/ e.Event \notin KnownEventNames
    \/ e.Event \in {"start", "output", "status"} /\ ~e.ok

C38_EventStep ==
    (events' # events) =>
       LET e == Last(events')
       IN  /\ Skipped(e) =>
                UNCHANGED <<commandID, status, exitCode, stdout, stderr, outLines,
                            errLines, pc, ret>>
           /\ (e.Event = "end" /\ ~e.ok) =>
                (pc' = "done" /\ ret' = StreamResult(status))
           /\ (e.Event = "error" /\ ~e.ok) =>
                (pc' = "done" /\ ret' = Failure(<<"command error">>))

\* C38: an event of an unknown name, or a start, output or status event with
\* an undecodable payload, fires no callback, changes none of the command id,
\* status, exit code, stdout and stderr, and the loop goes on; an end or
\* error event with an undecodable payload still ends the Run
C38_SkippedEvents == [][C38_EventStep]_vars

\* a start event with an undecodable payload was skipped after a start
\* event and output, and the Run then ended on an undecodable end event
C38_Witness ==
    /\ Returned
    /\ Len(events) = 4
    /\ events[1].Event = "start" /\ events[1].ok
    /\ IsOutput(events[2])
    /\ events[3].Event = "start" /\ ~events[3].ok
    /\ events[4].Event = "end" /\ ~events[4].ok
    /\ ret.kind = "result"
    /\ ret.ID = CmdID
    /\ ret.Stdout # <<>>

\* ------------------------------------- the two polling loops under fairness
\* a polling-mode Run or a WaitUntilReady
NextLive ==
    \/ Run
    \/ Poll
    \/ WaitElapsed
    \/ WaitCancelled
    \/ Cancel
    \/ Tick
    \/ NextWait

\* every request returns (the fetch of Run, the refresh of WaitUntilReady)
\* and time advances (the timers of the two select statements fire)
Fairness ==
    /\ WF_vars(Poll)
    /\ WF_vars(WaitElapsed)
    /\ WF_vars(Refresh)
    /\ WF_vars(SleepElapsed)

SpecLive == Init /\ [][NextLive]_vars /\ Fairness

InLoop == pc \in {"poll", "wait", "refresh", "sleep"}

\* C39: when every request returns and time advances, a WaitUntilReady and
\* a polling-mode Run that have entered their loop eventually return,
\* whatever statuses the service reports
C39_LoopsReturn == InLoop ~> Returned

\* a Run with a 2 ms timeout and a 1 ms poll interval polled a command that
\* never ended until the deadline passed
C39_Witness ==
    /\ Returned
    /\ Polling
    /\ given.Timeout = 2 /\ given.PollInterval = 1
    /\ TimedOut
    /\ nFetch >= 3
    /\ ~ctxDone

\* ------------------- the decoder's goroutine and the loop that reads it
\* (part_004 lines 38-71 with box_handle.go lines 182-298).  pc is the place
\* of the goroutine: "sse" in the scan loop, "send" at events <- ..., which
\* blocks until the loop receives because the channel is unbuffered,
\* "closed" after close(events).  ret is what runWithStreaming returned,
\* NoReturn while its loop is still receiving
producerUnchanged ==
    UNCHANGED <<given, opts, nSubmit, nStreamSubmit, cmd, commandID, status, stdout,
                stderr, exitCode, outLines, errLines, events, legacy, lastStdout,
                lastStderr, now, deadline, ctxDone, nFetch, resp, box, timeout, remote,
                args, snapshot, sandboxVars, concVars>>

\* part_004 lines 47-67: one turn of the scan loop up to the send.  After
\* runWithStreaming has returned and closed the body the scanner can still
\* give lines it holds in its buffer
ProducerScan ==
    /\ pc = "sse"
    /\ Len(scanner) < MaxLines
    /\ \E line \in SSELines :
          /\ scanner' = Append(scanner, line)
          /\ IF line = <<>>
             THEN IF event # <<>> /\ data # <<>>
                  THEN pc' = "send" /\ UNCHANGED <<event, data>>
                  ELSE pc' = pc /\ event' = <<>> /\ data' = <<>>
             ELSE IF HasPrefix(line, EventPrefix)
             THEN pc' = pc /\ event' = CutPrefix(line, EventPrefix) /\ data' = data
             ELSE IF HasPrefix(line, DataPrefix)
             THEN pc' = pc /\ data' = CutPrefix(line, DataPrefix) /\ event' = event
             ELSE UNCHANGED <<pc, event, data>>
    /\ UNCHANGED <<emitted, ret>>
    /\ producerUnchanged

\* part_004 lines 52-58 with box_handle.go lines 201-285: the loop receives
\* the event the goroutine sends; it goes on, or it returns (the deadline
\* has passed, or the event is an end, error or timeout event)
Handover ==
    /\ pc = "send"
    /\ ret = NoReturn
    /\ emitted' = Append(emitted, SSEEvent(event, data))
    /\ event' = <<>>
    /\ data' = <<>>
    /\ pc' = "sse"
    /\ \/ ret' = ret
       \/ ret' = NewCommandTimeoutError("", DefaultTimeout)
    /\ scanner' = scanner
    /\ producerUnchanged

\* part_004 lines 41 and 47: Scan returns false (the input ended, or the
\* read failed because the body was closed) and close(events) runs
ProducerEnd ==
    /\ pc = "sse"
    /\ pc' = "closed"
    /\ UNCHANGED <<sseVars, ret>>
    /\ producerUnchanged

\* box_handle.go lines 201 and 288-297: the loop finds the channel closed
ConsumerClosed ==
    /\ pc = "closed"
    /\ ret = NoReturn
    /\ ret' = CommandResult("", BoxID, CommandText, CommandStatusQueued, <<>>, <<>>, 0)
    /\ UNCHANGED <<pc, sseVars>>
    /\ producerUnchanged

NextProducer ==
    \/ ParseSSE
    \/ ProducerScan
    \/ Handover
    \/ ProducerEnd
    \/ ConsumerClosed

\* the goroutine runs whenever it can, and the loop receives what is sent
\* to it for as long as it has not returned
SpecProducer ==
    /\ InitWait
    /\ [][NextProducer]_vars
    /\ WF_vars(ProducerScan \/ ProducerEnd)
    /\ WF_vars(Handover)
    /\ WF_vars(ConsumerClosed)

\* C40 as stated: after a streaming Run has returned, the decoder's
\* goroutine eventually ends and closes its channel
C40_ProducerEnds == (pc \in {"sse", "send"} /\ ret # NoReturn) ~> (pc = "closed")

====
